---- MODULE Spec2Model ----
(***************************************************************************)
(* Model of the realtime speech-to-text streaming server                   *)
(* (core/voice): the session manager and AudioSession                      *)
(* (models/audio_session.py), the WebSocket endpoint, the control-message  *)
(* handler, the per-session transcription task and the idle-session        *)
(* reaper (routes/websocket.py).                                           *)
(*                                                                         *)
(* Concurrency is asyncio's: one event loop, coroutines that run           *)
(* atomically from one await to the next.  Every action below is the code  *)
(* between two awaits of one coroutine.  Two scheduling facts of asyncio   *)
(* are kept: a task whose cancellation was requested is woken through      *)
(* call_soon, so it runs before any timer (asyncio.sleep) expires and      *)
(* before any task created after the request takes its first step.         *)
(*                                                                         *)
(* Time is in seconds.  Audio is kept in blocks of BlockBytes bytes, each  *)
(* block of constant amplitude (in thousandths of full scale).             *)
(***************************************************************************)
EXTENDS Integers, Sequences, FiniteSets, TLC

\* ------------------------------------------------------------------ bounds
MaxInputs == 5         \* connects, frames and disconnects of the clients
MaxTime == 3600        \* the clock stops here
MaxBlocks == 5         \* blocks of audio of a client that only streams
MaxCalls == 2          \* POST /transcribe requests

\* ------------------------------------------------------- program constants
DEFAULT_SAMPLE_RATE == 16000
DEFAULT_WINDOW_MS == 500
DEFAULT_OVERLAP_MS == 250
DEFAULT_SILENCE_MS == 500
DEFAULT_VAD_THRESHOLD == 300
max_age_minutes == 30
\* the clock advances by one maximum age at a time
TickStep == max_age_minutes * 60
BlockBytes == (DEFAULT_OVERLAP_MS * DEFAULT_SAMPLE_RATE * 4) \div 1000

SessionIds == {"s1"}
Sockets == 1..MaxInputs
TaskIds == 1..MaxInputs
ObjIds == 1..MaxInputs
Amps == {0, 500}
\* binary frames of 0.25 s of audio, and those with 0.5 s of silence
SmallChunks == {<<a>> : a \in Amps}
Chunks == SmallChunks \cup {<<0, 0>>}
Texts == {"hello"}
NoTime == -1

VARIABLES
  now,        \* time.time(), seconds
  heap,       \* AudioSession objects, by identity
  sessions,   \* session_manager.sessions : id -> object (0 = absent)
  conns,      \* websocket_endpoint coroutines, one per socket
  tasks,      \* process_audio_vosk tasks, by identity
  active_connections,          \* id -> socket (0 = absent)
  active_transcription_tasks,  \* id -> task (0 = absent)
  wire,       \* frames handed to send_json and HTTP responses, in send order
  avail,      \* per engine: availability flag and what its constructor gives
  inputs,     \* connects, frames, disconnects and calls so far
  server,     \* "up", or "down" once the shutdown handler has run
  recognizer_instances  \* factory._recognizer_instances : key -> instance

vars == <<now, heap, sessions, conns, tasks, active_connections,
          active_transcription_tasks, wire, avail, inputs, server,
          recognizer_instances>>

\* ------------------------------------------------------------ schemas
AudioMetadata == [sample_rate |-> DEFAULT_SAMPLE_RATE, channels |-> 1,
                  encoding |-> "float32", language |-> "vi"]

TranscriptionConfig == [engine |-> "auto", model_size |-> "small",
                        partial_results |-> TRUE, vad_enabled |-> TRUE,
                        vad_threshold |-> DEFAULT_VAD_THRESHOLD,
                        silence_duration |-> DEFAULT_SILENCE_MS,
                        buffer_overlap |-> DEFAULT_OVERLAP_MS,
                        window_size |-> DEFAULT_WINDOW_MS]

\* ------------------------------------------------------------ recognizers
\* engine "none" stands for session.recognizer = None.  heard is the set of
\* buffer epochs of the audio the decoder holds; resets counts reset() calls.
NoRecognizer == [engine |-> "none", sample_rate |-> 0, language |-> "",
                 partial_results |-> FALSE, heard |-> {}, resets |-> 0]

\* The engines registered when the recognition package is imported.  What
\* the registry meets for each of them: probe is the availability flag of
\* config.py, ctor is what the constructor does when it is called: it gives
\* an instance whose is_available() is true ("ok") or false
\* ("unavailable"), or it raises.
Engines == {"whisper", "vosk", "sr"}
Installed == [probe |-> TRUE, ctor |-> "ok"]
\* the package is missing: the flag is false and is_available() would be too
NotInstalled == [probe |-> FALSE, ctor |-> "unavailable"]
\* the package is there but no model could be loaded
NoModel == [probe |-> TRUE, ctor |-> "unavailable"]
Raising == [probe |-> TRUE, ctor |-> "raises"]
EngineStates == {Installed, NotInstalled, NoModel, Raising}
OnlyVosk == [e \in Engines |-> IF e = "vosk" THEN Installed ELSE NotInstalled]

\* str.lower on the engine names of the model
lower(name) ==
  CASE name = "AUTO" -> "auto"
    [] name = "Whisper" -> "whisper"
    [] OTHER -> name

priority_order == <<"whisper", "vosk", "sr">>

\* What a call of the registry gives: the engine of the instance returned
\* ("none" for None), the engines whose constructor was called, in call
\* order, and whether the call raised.
NoInstance == [engine |-> "none", built |-> <<>>, raised |-> FALSE]
\* create_auto_recognizer, the loop over the engines of order
RECURSIVE auto_from(_, _)
auto_from(order, av) ==
  IF order = <<>> THEN NoInstance
  ELSE LET e == Head(order)
       IN IF ~av[e].probe THEN auto_from(Tail(order), av)
          ELSE IF av[e].ctor = "ok"
          THEN [engine |-> e, built |-> <<e>>, raised |-> FALSE]
          ELSE [auto_from(Tail(order), av) EXCEPT !.built = <<e>> \o @]

\* variant of create_auto_recognizer: vosk is tried before whisper
create_auto_recognizer_vosk_first(av) ==
  auto_from(<<"vosk", "whisper", "sr">>, av)
\* RecognizerRegistry.create_auto_recognizer: priority whisper > vosk > sr,
\* the first engine whose availability condition holds and whose instance
\* is available.
create_auto_recognizer(av) == auto_from(priority_order, av)

\* variant of registry_create: when the engine asked for cannot be had,
\* the best of the others is taken
registry_create_fallback(engine, av) ==
  IF lower(engine) = "auto" THEN create_auto_recognizer(av)
  ELSE IF engine \in Engines /\ av[engine].probe /\ av[engine].ctor = "ok"
  THEN [engine |-> engine, built |-> <<engine>>, raised |-> FALSE]
  ELSE create_auto_recognizer(av)
\* RecognizerRegistry.create_recognizer
registry_create(engine, av) ==
  IF lower(engine) = "auto" THEN create_auto_recognizer(av)
  ELSE IF engine \notin Engines THEN NoInstance
  ELSE IF ~av[engine].probe THEN NoInstance
  ELSE [engine |-> IF av[engine].ctor = "ok" THEN engine ELSE "none",
        built |-> <<engine>>, raised |-> FALSE]

\* factory.create_recognizer: lower case and alias normalisation, then the
\* registry.
factory_create(engine, av) ==
  registry_create(IF lower(engine) = "speechrecognition" THEN "sr"
                  ELSE lower(engine), av)

\* get_or_create_recognizer: the key of a call.  model_size "" stands for a
\* call without that keyword.  The f-string joins the parts with "_"; the
\* model keeps them apart.
recognizer_key(engine, language, sample_rate, model_size) ==
  <<lower(engine), lower(language), sample_rate,
    IF lower(engine) \in {"whisper", "auto"} THEN model_size ELSE "">>

\* _recognizer_instances is a sequence of [key, value] in insertion order;
\* a value is the engine of the instance ("none" for None) and serial, the
\* number of the create_recognizer call that made it.
HasKey(instances, k) == \E i \in DOMAIN instances : instances[i].key = k
Lookup(instances, k) ==
  instances[CHOOSE i \in DOMAIN instances : instances[i].key = k].value

\* what get_or_create_recognizer stores for a key it does not have
CreatedValue(instances, engine, av) ==
  [engine |-> factory_create(engine, av).engine,
   serial |-> Len(instances) + 1]

\* variant of get_or_create_recognizer: a key that holds None is created
\* again
get_or_create_recognizer_retry(d, engine, language, sample_rate, kw, av) ==
  LET k == recognizer_key(engine, language, sample_rate, kw)
      v == CreatedValue(d, engine, av)
  IN IF HasKey(d, k) /\ Lookup(d, k).engine # "none"
     THEN [instances |-> d, value |-> Lookup(d, k)]
     ELSE [instances |-> Append(d, [key |-> k, value |-> v]),
           value |-> v]
\* factory.get_or_create_recognizer: the dict after the call and the value
\* returned
get_or_create_recognizer(d, engine, language, sample_rate, kw, av) ==
  LET k == recognizer_key(engine, language, sample_rate, kw)
      v == CreatedValue(d, engine, av)
  IN IF HasKey(d, k)
     THEN [instances |-> d, value |-> Lookup(d, k)]
     ELSE [instances |-> Append(d, [key |-> k, value |-> v]),
           value |-> v]

\* the instance the factory gives for session s, NoRecognizer for None
new_recognizer(s, av) ==
  LET e == factory_create(s.config.engine, av).engine
  IN IF e = "none" THEN NoRecognizer
     ELSE [engine |-> e, sample_rate |-> s.metadata.sample_rate,
           language |-> s.metadata.language,
           partial_results |-> s.config.partial_results, heard |-> {},
           resets |-> 0]

\* variant of create_recognizer: the old decoder state is carried over
\* into the new instance
create_recognizer_reuse(s, av) ==
  [s EXCEPT !.recognizer =
     [new_recognizer(s, av) EXCEPT !.heard = s.recognizer.heard]]
\* AudioSession.create_recognizer: a new instance replaces the old one.
create_recognizer(s, av) == [s EXCEPT !.recognizer = new_recognizer(s, av)]

\* ------------------------------------------------------------ AudioSession
\* Besides the fields of the class a session record carries history
\* fields, written by the actions only: epoch (reset_buffers calls so far),
\* windows (windows extracted so far), dropped (blocks that resets threw
\* away), after_reset (what a client could observe when the last reset
\* finished, forgotten when audio arrives or a connection of the session
\* opens or closes), quiet_ms (length in ms of the audio covered by the
\* non-voiced windows taken since the last voiced one, 0 if there has been
\* no speech), gap_resets (recognizer.reset() calls since the last voiced
\* window) and returned (the last window get_audio_for_processing gave).
\* raw_buffer is a sequence of blocks of s.block bytes each.
\* total_audio_duration is in ms.
\* AudioSession.__init__
AudioSession(md, cfg, t, av) ==
  create_recognizer(
    [created_at |-> t, last_activity |-> t,
     metadata |-> md, config |-> cfg,
     audio_buffer |-> <<>>, raw_buffer |-> <<>>,
     transcript_buffer |-> <<>>, current_transcript |-> "",
     partial_transcript |-> "",
     is_processing |-> FALSE, is_speaking |-> FALSE,
     silence_start |-> NoTime,
     packets_received |-> 0, total_bytes |-> 0,
     total_audio_duration |-> 0,
     recognizer |-> NoRecognizer, block |-> BlockBytes, returned |-> <<>>,
     epoch |-> 0, windows |-> 0, dropped |-> 0, after_reset |-> <<>>,
     quiet_ms |-> 0, gap_resets |-> 0], av)

\* variant of add_audio_chunk: update_activity is not called
add_audio_chunk_stale(s, chunk, t) ==
  [s EXCEPT !.audio_buffer = Append(@, chunk),
            !.raw_buffer = @ \o chunk,
            !.packets_received = @ + 1,
            !.total_bytes = @ + Len(chunk) * s.block,
            !.total_audio_duration =
               @ + (Len(chunk) * s.block * 1000)
                     \div (s.metadata.sample_rate * 4)]
\* AudioSession.add_audio_chunk (chunk = sequence of blocks)
add_audio_chunk(s, chunk, t) ==
  [s EXCEPT !.audio_buffer = Append(@, chunk),
            !.raw_buffer = @ \o chunk,
            !.packets_received = @ + 1,
            !.total_bytes = @ + Len(chunk) * s.block,
            !.total_audio_duration =
               @ + (Len(chunk) * s.block * 1000) \div (s.metadata.sample_rate * 4),
            !.last_activity = t]

bytes_per_second(s) == s.metadata.sample_rate * 4
\* variant of bytes_needed: rounded up
bytes_needed_up(s) ==
  (s.config.window_size * bytes_per_second(s) + 999) \div 1000
\* int(window_size * bytes_per_second): int() drops the fraction
bytes_needed(s) == (s.config.window_size * bytes_per_second(s)) \div 1000
overlap_bytes(s) == (s.config.buffer_overlap * bytes_per_second(s)) \div 1000
process_bytes(s) == bytes_needed(s) - overlap_bytes(s)
buffer_len(s) == Len(s.raw_buffer) * s.block

\* AudioSession.get_audio_for_processing: the window, or <<>> with ok=FALSE
\* variant of has_window: a buffer of exactly one window is not enough
has_window_strict(s) == buffer_len(s) > bytes_needed(s)
has_window(s) == ~(buffer_len(s) < bytes_needed(s))
window_of(s) == SubSeq(s.raw_buffer, 1, bytes_needed(s) \div s.block)
DropHead(buf, n) == SubSeq(buf, n + 1, Len(buf))
\* variant of after_window: the whole window is removed
after_window_no_overlap(s) ==
  IF process_bytes(s) > 0
  THEN [s EXCEPT !.raw_buffer = DropHead(@, bytes_needed(s) \div s.block)]
  ELSE s
\* get_audio_for_processing, lines 103-109: the processed part is removed
after_window(s) ==
  IF process_bytes(s) > 0
  THEN [s EXCEPT !.raw_buffer = DropHead(@, process_bytes(s) \div s.block)]
  ELSE s
\* the session after a call that returned a window
get_audio_for_processing(s) ==
  [after_window(s) EXCEPT !.windows = @ + 1, !.returned = window_of(s)]

\* variant of reset_buffers: only the chunk deque is cleared
reset_buffers_keep_raw(s) == [s EXCEPT !.audio_buffer = <<>>]
\* AudioSession.reset_buffers
reset_buffers(s) == [s EXCEPT !.audio_buffer = <<>>, !.raw_buffer = <<>>]

\* str.strip on the texts of the model
strip(text) ==
  CASE text = " " -> ""
    [] text = " hello " -> "hello"
    [] OTHER -> text

\* variant of add_transcript: the text is not stripped before the test
add_transcript_no_strip(s, text, is_partial) ==
  IF is_partial THEN [s EXCEPT !.partial_transcript = text]
  ELSE IF text # ""
  THEN [s EXCEPT !.transcript_buffer = Append(@, text),
                 !.current_transcript = text,
                 !.partial_transcript = ""]
  ELSE s
\* AudioSession.add_transcript
add_transcript(s, text, is_partial) ==
  IF is_partial THEN [s EXCEPT !.partial_transcript = text]
  ELSE IF text # "" /\ strip(text) # ""
  THEN [s EXCEPT !.transcript_buffer = Append(@, text),
                 !.current_transcript = text,
                 !.partial_transcript = ""]
  ELSE s

\* utils.detect_voice_activity: rms > threshold on the float32 samples
RECURSIVE SumSq(_)
SumSq(w) == IF w = <<>> THEN 0 ELSE w[1].amp * w[1].amp + SumSq(Tail(w))

detect_voice_activity(w, threshold) ==
  IF w = <<>> THEN FALSE
  ELSE SumSq(w) > Len(w) * threshold * threshold

\* ------------------------------------------------------------ SessionManager
get_session(sid) == sessions[sid]

\* variant of create_session: the existence test is missing
create_session_fresh(h, ss, sid, md, cfg, t, av) ==
  <<Append(h, AudioSession(md, cfg, t, av)), [ss EXCEPT ![sid] = Len(h) + 1]>>
\* variant of create_session: returning an existing session counts as
\* activity
create_session_touch(h, ss, sid, md, cfg, t, av) ==
  IF ss[sid] # 0 THEN <<[h EXCEPT ![ss[sid]].last_activity = t], ss>>
  ELSE <<Append(h, AudioSession(md, cfg, t, av)),
         [ss EXCEPT ![sid] = Len(h) + 1]>>
\* SessionManager.create_session: <<heap, sessions>> after the call
create_session(h, ss, sid, md, cfg, t, av) ==
  IF ss[sid] # 0 THEN <<h, ss>>
  ELSE <<Append(h, AudioSession(md, cfg, t, av)),
         [ss EXCEPT ![sid] = Len(h) + 1]>>

\* SessionManager.delete_session
delete_session(ss, sid) ==
  IF ss[sid] # 0 THEN [ss EXCEPT ![sid] = 0] ELSE ss

\* ------------------------------------------------------------ tasks
Live(t) == tasks[t].pc # "done"
PendingCancel(t) == tasks[t].cancel /\ Live(t)
IsNew(t) == tasks[t].pc = "new"
\* nothing is waiting in the event loop's ready queue
ReadyEmpty == \A t \in DOMAIN tasks : ~PendingCancel(t) /\ ~IsNew(t)

\* asyncio.Task.cancel: no effect on a finished task
cancel(ts, t) ==
  IF ts[t].pc = "done" THEN ts ELSE [ts EXCEPT ![t].cancel = TRUE]

\* start_transcription_task: <<tasks, active_transcription_tasks>>
start_transcription_task(ts, att, sid, w) ==
  <<Append(ts, [pc |-> "new", sid |-> sid, ws |-> w, sess |-> 0,
                cancel |-> FALSE, exit |-> "none"]),
    [att EXCEPT ![sid] = Len(ts) + 1]>>

\* variant of send_json: the frame overtakes the frames sent before
send_json_front(wr, frame) == <<frame>> \o wr
\* websocket.send_json
send_json(wr, frame) == Append(wr, frame)

Open(w) == conns[w].pc \in {"recv", "reset_wait"}

Init ==
  /\ now = 0
  /\ heap = <<>>
  /\ sessions = [sid \in SessionIds |-> 0]
  /\ conns = [w \in Sockets |->
               [pc |-> "idle", sid |-> "none", sess |-> 0, victim |-> 0]]
  /\ tasks = <<>>
  /\ active_connections = [sid \in SessionIds |-> 0]
  /\ active_transcription_tasks = [sid \in SessionIds |-> 0]
  /\ wire = <<>>
  /\ avail = OnlyVosk
  /\ inputs = 0
  /\ server = "up"
  /\ recognizer_instances = <<>>

\* ------------------------------------------------------------ connections
\* websocket_endpoint, finally block: what it leaves of
\* <<active_connections, tasks, active_transcription_tasks>>
endpoint_finally(ac, ts, att, sid) ==
  <<IF ac[sid] # 0 THEN [ac EXCEPT ![sid] = 0] ELSE ac,
    IF att[sid] # 0 THEN cancel(ts, att[sid]) ELSE ts,
    IF att[sid] # 0 THEN [att EXCEPT ![sid] = 0] ELSE att>>

\* The head of process_client_message as the endpoint's loop re-enters it:
\* look the session up, give up (return False, then the finally block) when
\* it is gone, else wait in websocket.receive().
\* cs, ts, att are the values the caller has reached so far.
NextMessage(w, cs, ts, att) ==
  LET sid == cs[w].sid
      o == sessions'[sid]
      fin == endpoint_finally(active_connections, ts, att, sid)
  IN IF o = 0
     THEN /\ conns' = [cs EXCEPT ![w].pc = "closed", ![w].sess = 0]
          /\ active_connections' = fin[1]
          /\ tasks' = fin[2]
          /\ active_transcription_tasks' = fin[3]
     ELSE /\ conns' = [cs EXCEPT ![w].pc = "recv", ![w].sess = o]
          /\ active_connections' = active_connections
          /\ tasks' = ts
          /\ active_transcription_tasks' = att

\* websocket_endpoint up to the first receive(): accept, create_session,
\* register the connection, send connection_status.
Accept(w, sid) ==
  /\ conns[w].pc = "idle"
  /\ inputs < MaxInputs
  \* sockets are numbered in the order in which they are accepted
  /\ \A v \in Sockets : v < w => conns[v].pc # "idle"
  /\ LET cr == create_session(heap, sessions, sid, AudioMetadata,
                              TranscriptionConfig, now, avail)
     IN /\ heap' = [cr[1] EXCEPT ![cr[2][sid]].after_reset = <<>>]
        /\ sessions' = cr[2]
        /\ active_connections' = [active_connections EXCEPT ![sid] = w]
        /\ wire' = send_json(wire, [ws |-> w, type |-> "connection_status",
                                    session_id |-> sid])
        /\ conns' = [conns EXCEPT ![w] = [pc |-> "recv", sid |-> sid,
                                          sess |-> cr[2][sid], victim |-> 0]]
  /\ inputs' = inputs + 1
  /\ UNCHANGED <<now, tasks, active_transcription_tasks, avail, server,
                 recognizer_instances>>

\* receive() raises WebSocketDisconnect: return False, then the finally
\* block of websocket_endpoint.
Disconnect(w) ==
  /\ conns[w].pc = "recv"
  /\ inputs < MaxInputs
  /\ LET fin == endpoint_finally(active_connections, tasks,
                                 active_transcription_tasks, conns[w].sid)
     IN /\ active_connections' = fin[1]
        /\ tasks' = fin[2]
        /\ active_transcription_tasks' = fin[3]
  /\ conns' = [conns EXCEPT ![w].pc = "closed", ![w].sess = 0]
  /\ heap' = [heap EXCEPT ![conns[w].sess].after_reset = <<>>]
  /\ inputs' = inputs + 1
  /\ UNCHANGED <<now, sessions, wire, avail, server, recognizer_instances>>

\* variant of RecvBinary: a task is started unless one is registered,
\* finished or not
RecvBinary_no_restart(w, chunk) ==
  /\ conns[w].pc = "recv"
  /\ inputs < MaxInputs
  /\ LET sid == conns[w].sid
         o == conns[w].sess
         s == heap[o]
         t == active_transcription_tasks[sid]
         restart == t = 0
         st == IF restart
               THEN start_transcription_task(tasks,
                      active_transcription_tasks, sid, w)
               ELSE <<tasks, active_transcription_tasks>>
     IN /\ heap' = [heap EXCEPT ![o] =
                      [add_audio_chunk(s, [i \in DOMAIN chunk |->
                                            [amp |-> chunk[i], ep |-> s.epoch]],
                                       now) EXCEPT !.after_reset = <<>>]]
        /\ inputs' = inputs + 1
        /\ UNCHANGED <<now, sessions, wire, avail, server,
                       recognizer_instances>>
        /\ NextMessage(w, conns, st[1], st[2])
\* a binary frame: chunk gives the amplitudes of its blocks
RecvBinary(w, chunk) ==
  /\ conns[w].pc = "recv"
  /\ inputs < MaxInputs
  /\ LET sid == conns[w].sid
         o == conns[w].sess
         s == heap[o]
         t == active_transcription_tasks[sid]
         restart == t = 0 \/ tasks[t].pc = "done"
         st == IF restart
               THEN start_transcription_task(tasks,
                      active_transcription_tasks, sid, w)
               ELSE <<tasks, active_transcription_tasks>>
     IN /\ heap' = [heap EXCEPT ![o] =
                      [add_audio_chunk(s, [i \in DOMAIN chunk |->
                                            [amp |-> chunk[i], ep |-> s.epoch]],
                                       now) EXCEPT !.after_reset = <<>>]]
        /\ inputs' = inputs + 1
        /\ UNCHANGED <<now, sessions, wire, avail, server,
                       recognizer_instances>>
        /\ NextMessage(w, conns, st[1], st[2])

\* ------------------------------------------------------------ text frames
\* the text frames of the model: two config messages, a text that is no
\* JSON and a message of a type the handler does not know
ConfigSilence0 == "{\"type\":\"config\",\"data\":{\"silence_duration\":0}}"
ConfigNegative == "{\"type\":\"config\",\"data\":{\"silence_duration\":-1}}"
NotJson == "{\"type\":"
UnknownType == "{\"type\":\"bogus\",\"data\":{\"silence_duration\":-1}}"
ConfigNoPartials ==
  "{\"type\":\"config\",\"data\":{\"partial_results\":false}}"
TextFrames == {ConfigSilence0, ConfigNegative, NotJson, UnknownType}
\* ping messages, one of them without a timestamp
Ping1 == "{\"type\":\"ping\",\"timestamp\":1}"
Ping2 == "{\"type\":\"ping\",\"timestamp\":2}"
PingBare == "{\"type\":\"ping\"}"
PingFrames == {Ping1, Ping2, PingBare}
\* None, the value of message.get("timestamp") when the key is missing
Null == NoTime
\* config messages that name an engine, and metadata messages: one with a
\* language only, one with a sample rate only and one whose sample rate is
\* no number
ConfigWhisper == "{\"type\":\"config\",\"data\":{\"engine\":\"whisper\"}}"
ConfigVosk == "{\"type\":\"config\",\"data\":{\"engine\":\"vosk\"}}"
MetadataEn == "{\"type\":\"metadata\",\"data\":{\"language\":\"en\"}}"
Metadata32k == "{\"type\":\"metadata\",\"data\":{\"sample_rate\":32000}}"
MetadataBad == "{\"type\":\"metadata\",\"data\":{\"sample_rate\":\"fast\"}}"
EngineFrames == {ConfigWhisper, ConfigVosk, MetadataEn, Metadata32k,
                 MetadataBad}

\* json.loads followed by message.get("type", ""), message.get("data", {})
\* and message.get("timestamp"): ok = FALSE stands for JSONDecodeError;
\* durations come in seconds and are kept in ms
json_loads(text) ==
  CASE text = ConfigSilence0 ->
         [ok |-> TRUE, type |-> "config", data |-> [silence_duration |-> 0],
          timestamp |-> Null]
    [] text = ConfigNegative ->
         [ok |-> TRUE, type |-> "config",
          data |-> [silence_duration |-> -1000], timestamp |-> Null]
    [] text = UnknownType ->
         [ok |-> TRUE, type |-> "bogus",
          data |-> [silence_duration |-> -1000], timestamp |-> Null]
    [] text = Ping1 ->
         [ok |-> TRUE, type |-> "ping", data |-> <<>>, timestamp |-> 1]
    [] text = Ping2 ->
         [ok |-> TRUE, type |-> "ping", data |-> <<>>, timestamp |-> 2]
    [] text = PingBare ->
         [ok |-> TRUE, type |-> "ping", data |-> <<>>, timestamp |-> Null]
    [] text = ConfigNoPartials ->
         [ok |-> TRUE, type |-> "config",
          data |-> [partial_results |-> FALSE], timestamp |-> Null]
    [] text = ConfigWhisper ->
         [ok |-> TRUE, type |-> "config", data |-> [engine |-> "whisper"],
          timestamp |-> Null]
    [] text = ConfigVosk ->
         [ok |-> TRUE, type |-> "config", data |-> [engine |-> "vosk"],
          timestamp |-> Null]
    [] text = MetadataEn ->
         [ok |-> TRUE, type |-> "metadata", data |-> [language |-> "en"],
          timestamp |-> Null]
    [] text = Metadata32k ->
         [ok |-> TRUE, type |-> "metadata", data |-> [sample_rate |-> 32000],
          timestamp |-> Null]
    [] text = MetadataBad ->
         [ok |-> TRUE, type |-> "metadata", data |-> [sample_rate |-> "fast"],
          timestamp |-> Null]
    [] OTHER -> [ok |-> FALSE, type |-> "", data |-> <<>>, timestamp |-> Null]

\* TranscriptionConfig(**data): the fields given, defaults for the others;
\* the model has no range check because the class has none
TranscriptionConfigOf(data) ==
  [f \in DOMAIN TranscriptionConfig |->
     IF f \in DOMAIN data THEN data[f] ELSE TranscriptionConfig[f]]

\* AudioMetadata(**data): the fields given, defaults for the others
AudioMetadataOf(data) ==
  [f \in DOMAIN AudioMetadata |->
     IF f \in DOMAIN data THEN data[f] ELSE AudioMetadata[f]]

\* pydantic raises ValidationError for a value of the wrong type; the
\* handler catches it (except Exception) and returns True
ValidationError(text) == text = MetadataBad

\* variant of handle_text: a metadata message leaves the recognizer alone
handle_text_keep_recognizer(s, text) ==
  LET m == json_loads(text)
  IN IF ~m.ok \/ ValidationError(text) THEN s
     ELSE IF m.type = "metadata"
     THEN [s EXCEPT !.metadata = AudioMetadataOf(m.data)]
     ELSE IF m.type = "config"
     THEN [s EXCEPT !.config = TranscriptionConfigOf(m.data)]
     ELSE s
\* variant of handle_text: the type of the message is not looked at
handle_text_any_type(s, text) ==
  LET m == json_loads(text)
  IN IF ~m.ok THEN s
     ELSE [s EXCEPT !.config = TranscriptionConfigOf(m.data)]
\* the text branch of process_client_message on the session (reset
\* messages have actions of their own)
handle_text(s, text) ==
  LET m == json_loads(text)
  IN IF ~m.ok \/ ValidationError(text) THEN s
     ELSE IF m.type = "metadata"
     THEN create_recognizer([s EXCEPT !.metadata = AudioMetadataOf(m.data)],
                            avail)
     ELSE IF m.type = "config"
     THEN [s EXCEPT !.config = TranscriptionConfigOf(m.data)]
     ELSE s

\* variant of reply_text: no answer to a ping without a timestamp
reply_text_need_time(wr, w, text) ==
  LET m == json_loads(text)
  IN IF m.ok /\ m.type = "ping" /\ m.timestamp # Null
     THEN send_json(wr, [ws |-> w, type |-> "pong",
                         timestamp |-> m.timestamp])
     ELSE wr
\* the frames the text branch sends on socket w: a pong for a ping
reply_text(wr, w, text) ==
  LET m == json_loads(text)
  IN IF m.ok /\ m.type = "ping"
     THEN send_json(wr, [ws |-> w, type |-> "pong",
                         timestamp |-> m.timestamp])
     ELSE wr

\* a text frame other than reset: handled, return True, and the loop of
\* websocket_endpoint calls process_client_message again
RecvText(w, text) ==
  /\ conns[w].pc = "recv"
  /\ inputs < MaxInputs
  /\ inputs' = inputs + 1
  /\ heap' = [heap EXCEPT ![conns[w].sess] = handle_text(@, text)]
  /\ wire' = reply_text(wire, w, text)
  /\ UNCHANGED <<now, sessions, avail, server, recognizer_instances>>
  /\ NextMessage(w, conns, tasks, active_transcription_tasks)

\* what a client can observe of a session: its buffer, transcripts and flags
\* and the number n of dispatcher tasks at work for it
Observable(s, n) ==
  [raw_buffer |-> s.raw_buffer, history |-> s.transcript_buffer,
   current |-> s.current_transcript, partial |-> s.partial_transcript,
   is_speaking |-> s.is_speaking, is_processing |-> s.is_processing,
   live |-> n]

\* tasks of ts for sid that are neither finished nor asked to stop
Running(ts, sid) ==
  Cardinality({t \in DOMAIN ts :
                 ts[t].sid = sid /\ ts[t].pc # "done" /\ ~ts[t].cancel})

\* the reset branch after the optional wait: reset_buffers,
\* create_recognizer, start_transcription_task, send reset_completed
ResetTail(w) ==
  LET sid == conns[w].sid
      o == conns[w].sess
      st == start_transcription_task(tasks, active_transcription_tasks,
                                     sid, w)
  IN /\ heap' = [heap EXCEPT ![o] =
                   LET s == create_recognizer(reset_buffers(heap[o]), avail)
                   IN [s EXCEPT !.epoch = @ + 1,
                                !.dropped = @ + Len(heap[o].raw_buffer),
                                !.after_reset =
                                   <<Observable(s, Running(st[1], sid))>>]]
     /\ wire' = send_json(wire, [ws |-> w, type |-> "status",
                                 status |-> "reset_completed",
                                 session_id |-> sid])
     /\ UNCHANGED <<now, sessions, avail, server, recognizer_instances>>
     /\ NextMessage(w, [conns EXCEPT ![w].victim = 0], st[1], st[2])

\* a reset message while a task is registered: cancel it and sleep 0.1 s
RecvResetCancel(w) ==
  /\ conns[w].pc = "recv"
  /\ active_transcription_tasks[conns[w].sid] # 0
  /\ inputs < MaxInputs
  /\ inputs' = inputs + 1
  /\ tasks' = cancel(tasks, active_transcription_tasks[conns[w].sid])
  /\ conns' = [conns EXCEPT ![w].pc = "reset_wait",
                            ![w].victim =
                               active_transcription_tasks[conns[w].sid]]
  /\ UNCHANGED <<now, heap, sessions, active_connections,
                 active_transcription_tasks, wire, avail, server,
                 recognizer_instances>>

\* a reset message while no task is registered: no wait
RecvResetDirect(w) ==
  /\ conns[w].pc = "recv"
  /\ active_transcription_tasks[conns[w].sid] = 0
  /\ inputs < MaxInputs
  /\ inputs' = inputs + 1
  /\ ResetTail(w)

\* the sleep of the reset branch is over
ResetResume(w) ==
  /\ conns[w].pc = "reset_wait"
  /\ ReadyEmpty
  /\ UNCHANGED inputs
  /\ ResetTail(w)

\* ------------------------------------------------------------ recognizer calls
\* what process_audio may return: text "" is "nothing recognized".
\* VoskRecognizer: a final result, or a partial one when the instance was
\* built with partial_results; the other back-ends only return finals.
Results(rec) ==
  {[text |-> "", is_final |-> (rec.engine # "vosk")]}
  \cup {[text |-> x, is_final |-> TRUE] : x \in Texts}
  \cup (IF rec.engine = "vosk" /\ rec.partial_results
        THEN {[text |-> x, is_final |-> FALSE] : x \in Texts} ELSE {})

\* the decoder after process_audio(w) returned res: it has heard w, and a
\* final result closes the utterance
process_audio(rec, w, res) ==
  [rec EXCEPT !.heard = IF res.text # "" /\ res.is_final THEN {}
                        ELSE @ \cup {w[i].ep : i \in DOMAIN w}]

\* reset() of a back-end: the decoder state is dropped
recognizer_reset(rec) == [rec EXCEPT !.heard = {}, !.resets = @ + 1]

\* reset() builds a new KaldiRecognizer (vosk) or sr.Recognizer outside any
\* try block; WhisperRecognizer.reset only clears fields
ResetMayRaise(rec) == rec.engine \in {"vosk", "sr"}

\* ------------------------------------------------------------ back-ends
\* The three back-ends, method by method.  An instance is the recognizer
\* record with, in addition: available (what is_available() gives),
\* audio_ms (WhisperRecognizer.audio_buffer, in ms of audio at the
\* recognizer's sample rate), last_transcript_time, engine_calls (calls of
\* the model, decoder or cloud endpoint so far), and what the last
\* process_audio call gave: result, or raised = TRUE if it raised.
NoResult == [text |-> "", is_final |-> TRUE]
Backend(engine, available, partial_results, t) ==
  [engine |-> engine, sample_rate |-> DEFAULT_SAMPLE_RATE, language |-> "vi",
   partial_results |-> partial_results, heard |-> {}, resets |-> 0,
   available |-> available, audio_ms |-> 0, last_transcript_time |-> t,
   engine_calls |-> 0, result |-> NoResult, raised |-> FALSE]

\* what the engine under a back-end does when it is called:
\* whisper: model.transcribe gives a text, a blank text, or raises;
\* vosk: AcceptWaveform is true with a text or a blank one, or false with
\* a partial or a blank one, or something raises;
\* sr: recognize_google gives a text, or raises UnknownValueError,
\* RequestError or something else.
Outcomes(engine) ==
  CASE engine = "whisper" -> {"text", "blank", "raises"}
    [] engine = "vosk" ->
         {"text", "blank", "partial", "partial_blank", "raises"}
    [] OTHER -> {"text", "unknown_value", "request_error", "raises"}

\* WhisperRecognizer.process_audio, lines 115-117: transcribe now?
whisper_trigger(audio_ms, since_last) ==
  audio_ms >= 1000 \/ (audio_ms > 200 /\ since_last > 3)

\* WhisperRecognizer.process_audio(ms of audio) at time t
whisper_process_audio(rec, ms, t, out) ==
  IF ~rec.available
  THEN [rec EXCEPT !.result = NoResult, !.raised = FALSE]
  ELSE LET buf == rec.audio_ms + ms
       IN IF ~whisper_trigger(buf, t - rec.last_transcript_time)
          THEN [rec EXCEPT !.audio_ms = buf, !.result = NoResult,
                           !.raised = FALSE]
          ELSE IF out = "text"
          THEN [rec EXCEPT !.audio_ms = 0, !.last_transcript_time = t,
                           !.engine_calls = @ + 1,
                           !.result = [text |-> strip(" hello "),
                                       is_final |-> TRUE],
                           !.raised = FALSE]
          ELSE \* a blank text, or except Exception: nothing is cleared
               [rec EXCEPT !.audio_ms = buf, !.engine_calls = @ + 1,
                           !.result = NoResult, !.raised = FALSE]

\* VoskRecognizer.process_audio
vosk_process_audio(rec, ms, t, out) ==
  IF ~rec.available
  THEN [rec EXCEPT !.result = NoResult, !.raised = FALSE]
  ELSE [rec EXCEPT
          !.engine_calls = @ + 1, !.raised = FALSE,
          !.result =
             IF out = "text" THEN [text |-> "hello", is_final |-> TRUE]
             ELSE IF out = "partial" /\ rec.partial_results
             THEN [text |-> "hello", is_final |-> FALSE]
             ELSE [text |-> "", is_final |-> FALSE]]

\* variant of sr_process_audio: only the two exceptions of the library are
\* caught
sr_process_audio_narrow(rec, ms, t, out) ==
  IF ~rec.available
  THEN [rec EXCEPT !.result = NoResult, !.raised = FALSE]
  ELSE [rec EXCEPT
          !.engine_calls = @ + 1, !.raised = (out = "raises"),
          !.result = IF out = "text"
                     THEN [text |-> "hello", is_final |-> TRUE]
                     ELSE NoResult]
\* SpeechRecognitionRecognizer.process_audio
sr_process_audio(rec, ms, t, out) ==
  IF ~rec.available
  THEN [rec EXCEPT !.result = NoResult, !.raised = FALSE]
  ELSE [rec EXCEPT
          !.engine_calls = @ + 1, !.raised = FALSE,
          !.result = IF out = "text"
                     THEN [text |-> "hello", is_final |-> TRUE]
                     ELSE NoResult]

\* recognizer.process_audio(audio_data), by the class of the instance
backend_process_audio(rec, ms, t, out) ==
  CASE rec.engine = "whisper" -> whisper_process_audio(rec, ms, t, out)
    [] rec.engine = "vosk" -> vosk_process_audio(rec, ms, t, out)
    [] OTHER -> sr_process_audio(rec, ms, t, out)

\* ------------------------------------------------------------ dispatcher
\* process_audio_vosk, lines 56-80: the VAD block up to the reset() call.
\* Gives the session and whether recognizer.reset() is called.
\* variant of vad_block: reset() is called again on every non-voiced window
\* that follows the end of the speech
vad_block_reset_again(s, w, t) ==
  IF ~s.config.vad_enabled THEN [s |-> s, reset |-> FALSE]
  ELSE IF detect_voice_activity(w, s.config.vad_threshold)
  THEN [s |-> [s EXCEPT !.is_speaking = TRUE, !.silence_start = NoTime],
        reset |-> FALSE]
  ELSE IF s.is_speaking
  THEN IF s.silence_start = NoTime
       THEN [s |-> [s EXCEPT !.silence_start = t], reset |-> FALSE]
       ELSE IF (t - s.silence_start) * 1000 > s.config.silence_duration
       THEN [s |-> [s EXCEPT !.is_speaking = FALSE],
             reset |-> s.recognizer.engine # "none"]
       ELSE [s |-> s, reset |-> FALSE]
  ELSE [s |-> s,
        reset |-> s.silence_start # NoTime /\ s.recognizer.engine # "none"]
\* variant of vad_block: the second non-voiced window ends the speech
\* whatever time has passed
vad_block_no_timer(s, w, t) ==
  IF ~s.config.vad_enabled THEN [s |-> s, reset |-> FALSE]
  ELSE IF detect_voice_activity(w, s.config.vad_threshold)
  THEN [s |-> [s EXCEPT !.is_speaking = TRUE, !.silence_start = NoTime],
        reset |-> FALSE]
  ELSE IF s.is_speaking
  THEN IF s.silence_start = NoTime
       THEN [s |-> [s EXCEPT !.silence_start = t], reset |-> FALSE]
       ELSE [s |-> [s EXCEPT !.is_speaking = FALSE],
             reset |-> s.recognizer.engine # "none"]
  ELSE [s |-> s, reset |-> FALSE]
\* variant of vad_block: a voiced window leaves the silence timer as it is
vad_block_keep_timer(s, w, t) ==
  IF ~s.config.vad_enabled THEN [s |-> s, reset |-> FALSE]
  ELSE IF detect_voice_activity(w, s.config.vad_threshold)
  THEN [s |-> [s EXCEPT !.is_speaking = TRUE], reset |-> FALSE]
  ELSE IF s.is_speaking
  THEN IF s.silence_start = NoTime
       THEN [s |-> [s EXCEPT !.silence_start = t], reset |-> FALSE]
       ELSE IF (t - s.silence_start) * 1000 > s.config.silence_duration
       THEN [s |-> [s EXCEPT !.is_speaking = FALSE],
             reset |-> s.recognizer.engine # "none"]
       ELSE [s |-> s, reset |-> FALSE]
  ELSE [s |-> s, reset |-> FALSE]
vad_block(s, w, t) ==
  IF ~s.config.vad_enabled THEN [s |-> s, reset |-> FALSE]
  ELSE IF detect_voice_activity(w, s.config.vad_threshold)
  THEN [s |-> [s EXCEPT !.is_speaking = TRUE, !.silence_start = NoTime],
        reset |-> FALSE]
  ELSE IF s.is_speaking
  THEN IF s.silence_start = NoTime
       THEN [s |-> [s EXCEPT !.silence_start = t], reset |-> FALSE]
       ELSE IF (t - s.silence_start) * 1000 > s.config.silence_duration
       THEN [s |-> [s EXCEPT !.is_speaking = FALSE],
             reset |-> s.recognizer.engine # "none"]
       ELSE [s |-> s, reset |-> FALSE]
  ELSE [s |-> s, reset |-> FALSE]

\* the history fields quiet_ms and gap_resets after the VAD block gave v on
\* window w of a session that was in state before
note_window(before, v, w) ==
  IF ~before.config.vad_enabled THEN v
  ELSE IF detect_voice_activity(w, before.config.vad_threshold)
  THEN [v EXCEPT !.s.quiet_ms = 0, !.s.gap_resets = 0]
  ELSE [v EXCEPT
          !.s.quiet_ms =
             IF @ # 0
             THEN @ + before.config.window_size - before.config.buffer_overlap
             ELSE IF before.is_speaking THEN before.config.window_size ELSE 0,
          !.s.gap_resets = IF v.reset THEN @ + 1 ELSE @]

\* variant of task_finally: the finally block is missing
task_finally_skip(h, sid) == h
\* the finally block of process_audio_vosk on heap h
task_finally(h, sid) ==
  IF get_session(sid) # 0
  THEN [h EXCEPT ![get_session(sid)].is_processing = FALSE]
  ELSE h

Finish(t, why) ==
  [tasks EXCEPT ![t].pc = "done", ![t].exit = why, ![t].sess = 0]

\* One iteration of the while loop of process_audio_vosk for task t on
\* session object o, starting from heap h, up to its next await.
LoopBody(t, o, h) ==
  LET s0 == h[o]
      ws == tasks[t].ws
      sid == tasks[t].sid
  IN IF ~has_window(s0)
     THEN /\ heap' = h
          /\ tasks' = [tasks EXCEPT ![t].pc = "nodata_sleep", ![t].sess = o]
          /\ wire' = wire
     ELSE LET w == window_of(s0)
              v == note_window(s0,
                     vad_block(get_audio_for_processing(s0), w, now), w)
          IN \E raises \in (IF v.reset /\ ResetMayRaise(v.s.recognizer)
                            THEN BOOLEAN ELSE {FALSE}) :
             IF raises
             THEN \* except Exception: send the error frame
                  IF conns[ws].pc = "closed"
                  THEN /\ heap' = task_finally([h EXCEPT ![o] = v.s], sid)
                       /\ tasks' = Finish(t, "recognizer_error")
                       /\ wire' = wire
                  ELSE /\ heap' = [h EXCEPT ![o] = v.s]
                       /\ tasks' = [tasks EXCEPT ![t].pc = "err_send",
                                                 ![t].sess = o,
                                                 ![t].exit = "recognizer_error"]
                       /\ wire' = send_json(wire, [ws |-> ws, type |-> "error",
                                                   session_id |-> sid])
             ELSE LET s1 == IF v.reset
                            THEN [v.s EXCEPT !.recognizer = recognizer_reset(@)]
                            ELSE v.s
                  IN IF s1.recognizer.engine = "none"
                     THEN /\ heap' = [h EXCEPT ![o] = s1]
                          /\ tasks' = [tasks EXCEPT ![t].pc = "iter_sleep",
                                                    ![t].sess = o]
                          /\ wire' = wire
                     ELSE \E res \in Results(s1.recognizer) :
                          LET s2 == [s1 EXCEPT !.recognizer =
                                       process_audio(@, w, res)]
                              s3 == add_transcript(s2, res.text,
                                                   ~res.is_final)
                          IN IF res.text = ""
                             THEN /\ heap' = [h EXCEPT ![o] = s2]
                                  /\ tasks' = [tasks EXCEPT
                                                 ![t].pc = "iter_sleep",
                                                 ![t].sess = o]
                                  /\ wire' = wire
                             ELSE IF conns[ws].pc = "closed"
                             THEN \* send_json raises, so does the error frame
                                  /\ heap' = task_finally(
                                               [h EXCEPT ![o] = s3], sid)
                                  /\ tasks' = Finish(t, "send_error")
                                  /\ wire' = wire
                             ELSE /\ heap' = [h EXCEPT ![o] = s3]
                                  /\ tasks' = [tasks EXCEPT
                                                 ![t].pc = "iter_sleep",
                                                 ![t].sess = o]
                                  /\ wire' = send_json(wire,
                                       [ws |-> ws, type |-> "transcript",
                                        text |-> res.text,
                                        is_final |-> res.is_final,
                                        session_id |-> sid, obj |-> o,
                                        win |-> s3.windows,
                                        ep |-> s3.epoch,
                                        src |-> s2.recognizer.heard
                                                \cup {w[i].ep : i \in DOMAIN w}])

\* first step of a task: look the session up, set is_processing, first
\* iteration
TaskStart(t) ==
  /\ t \in DOMAIN tasks
  /\ IsNew(t) /\ ~tasks[t].cancel
  /\ \A u \in DOMAIN tasks : u # t => ~PendingCancel(u)
  /\ \A u \in DOMAIN tasks : u < t => ~IsNew(u)
  /\ IF get_session(tasks[t].sid) = 0
     THEN /\ tasks' = Finish(t, "no_session")
          /\ UNCHANGED <<heap, wire>>
     ELSE LoopBody(t, get_session(tasks[t].sid),
                   [heap EXCEPT ![get_session(tasks[t].sid)].is_processing
                                  = TRUE])
  /\ UNCHANGED <<now, sessions, conns, active_connections,
                 active_transcription_tasks, avail, server, inputs,
                 recognizer_instances>>

\* variant of TaskWake: the sleep returns although the task was cancelled
TaskWake_deaf(t) ==
  /\ t \in DOMAIN tasks
  /\ tasks[t].pc \in {"nodata_sleep", "iter_sleep"}
  /\ \A u \in DOMAIN tasks : ~IsNew(u)
  /\ LoopBody(t, tasks[t].sess, heap)
  /\ UNCHANGED <<now, sessions, conns, active_connections,
                 active_transcription_tasks, avail, server, inputs,
                 recognizer_instances>>
\* a sleep of the loop is over: next iteration
TaskWake(t) ==
  /\ t \in DOMAIN tasks
  /\ tasks[t].pc \in {"nodata_sleep", "iter_sleep"}
  /\ ~tasks[t].cancel
  /\ ReadyEmpty
  /\ LoopBody(t, tasks[t].sess, heap)
  /\ UNCHANGED <<now, sessions, conns, active_connections,
                 active_transcription_tasks, avail, server, inputs,
                 recognizer_instances>>

\* CancelledError is thrown into the task: a task that never ran just ends,
\* a running one goes through its except and finally blocks
TaskCancelled(t) ==
  /\ t \in DOMAIN tasks
  /\ PendingCancel(t)
  /\ tasks' = Finish(t, IF tasks[t].pc = "err_send" THEN tasks[t].exit
                        ELSE "cancelled")
  /\ heap' = IF IsNew(t) THEN heap ELSE task_finally(heap, tasks[t].sid)
  /\ UNCHANGED <<now, sessions, conns, active_connections,
                 active_transcription_tasks, wire, avail, server, inputs,
                 recognizer_instances>>

\* the error frame is out: finally block, the task ends
TaskErrSent(t) ==
  /\ t \in DOMAIN tasks
  /\ tasks[t].pc = "err_send" /\ ~tasks[t].cancel
  /\ tasks' = Finish(t, tasks[t].exit)
  /\ heap' = task_finally(heap, tasks[t].sid)
  /\ UNCHANGED <<now, sessions, conns, active_connections,
                 active_transcription_tasks, wire, avail, server, inputs,
                 recognizer_instances>>

\* ------------------------------------------------------------ reaper, clock
age_minutes_x60(s, t) == t - s.last_activity
\* variant of expired: >= where the code has >
expired_at(s, t) == age_minutes_x60(s, t) >= max_age_minutes * 60
expired(s, t) == age_minutes_x60(s, t) > max_age_minutes * 60

\* one pass of cleanup_old_sessions
RECURSIVE reap(_, _, _, _)
reap(todo, ts, att, ss) ==
  IF todo = {} THEN <<ts, att, ss>>
  ELSE LET sid == CHOOSE x \in todo : TRUE
       IN reap(todo \ {sid},
               IF att[sid] # 0 THEN cancel(ts, att[sid]) ELSE ts,
               IF att[sid] # 0 THEN [att EXCEPT ![sid] = 0] ELSE att,
               delete_session(ss, sid))

to_delete(t) ==
  {sid \in SessionIds : sessions[sid] # 0 /\ expired(heap[sessions[sid]], t)}

ReaperTick ==
  /\ ReadyEmpty
  /\ LET r == reap(to_delete(now), tasks, active_transcription_tasks,
                   sessions)
     IN /\ tasks' = r[1]
        /\ active_transcription_tasks' = r[2]
        /\ sessions' = r[3]
  /\ UNCHANGED <<now, heap, conns, active_connections, wire, avail, server,
                 inputs, recognizer_instances>>

Tick ==
  /\ ReadyEmpty
  /\ now + TickStep <= MaxTime
  /\ now' = now + TickStep
  /\ UNCHANGED <<heap, sessions, conns, tasks, active_connections,
                 active_transcription_tasks, wire, avail, server, inputs,
                 recognizer_instances>>

Next ==
  \/ \E w \in Sockets, sid \in SessionIds : Accept(w, sid)
  \/ \E w \in Sockets : Disconnect(w)
  \/ \E w \in Sockets, chunk \in SmallChunks : RecvBinary(w, chunk)
  \/ \E w \in Sockets : RecvResetCancel(w)
  \/ \E w \in Sockets : RecvResetDirect(w)
  \/ \E w \in Sockets : ResetResume(w)
  \/ \E t \in TaskIds : TaskStart(t)
  \/ \E t \in TaskIds : TaskWake(t)
  \/ \E t \in TaskIds : TaskCancelled(t)
  \/ \E t \in TaskIds : TaskErrSent(t)
  \/ ReaperTick
  \/ Tick

Spec == Init /\ [][Next]_vars

\* One client streams audio in frames of one or two blocks and never sends
\* a control message or hangs up; the reaper is left out.
StreamBinary(chunk) ==
  /\ conns[1].sess # 0
  /\ heap[conns[1].sess].total_bytes \div BlockBytes + Len(chunk) <= MaxBlocks
  /\ RecvBinary(1, chunk)

StreamNext ==
  \/ \E sid \in SessionIds : Accept(1, sid)
  \/ \E chunk \in Chunks : StreamBinary(chunk)
  \/ \E t \in TaskIds : TaskStart(t)
  \/ \E t \in TaskIds : TaskWake(t)
  \/ \E t \in TaskIds : TaskErrSent(t)
  \/ Tick

StreamSpec == Init /\ [][StreamNext]_vars

\* One client sends audio and the text frames of TextFrames; the reaper
\* runs.
ControlNext ==
  \/ \E sid \in SessionIds : Accept(1, sid)
  \/ \E chunk \in SmallChunks : RecvBinary(1, chunk)
  \/ \E text \in TextFrames : RecvText(1, text)
  \/ \E t \in TaskIds : TaskStart(t)
  \/ \E t \in TaskIds : TaskWake(t)
  \/ \E t \in TaskIds : TaskCancelled(t)
  \/ \E t \in TaskIds : TaskErrSent(t)
  \/ ReaperTick
  \/ Tick

ControlSpec == Init /\ [][ControlNext]_vars

\* One client sends audio and pings; the reaper runs.
\* ------------------------------------------------------------ blocking calls
\* recognizer.process_audio is an ordinary call made by the dispatcher
\* coroutine on the event loop's thread: from the moment the call starts to
\* the moment it returns the loop runs nothing else.  pc "in_call" is a task
\* inside that call.
Blocking == \E t \in DOMAIN tasks : tasks[t].pc = "in_call"
\* the next iteration of t gets a window and has a recognizer to give it to
Calls(t) ==
  /\ has_window(heap[tasks[t].sess])
  /\ heap[tasks[t].sess].recognizer.engine # "none"

\* a sleep of the loop is over and the iteration reaches process_audio
TaskCall(t) ==
  /\ t \in DOMAIN tasks
  /\ tasks[t].pc \in {"nodata_sleep", "iter_sleep"}
  /\ ~tasks[t].cancel
  /\ ReadyEmpty
  /\ Calls(t)
  /\ tasks' = [tasks EXCEPT ![t].pc = "in_call"]
  /\ UNCHANGED <<now, heap, sessions, conns, active_connections,
                 active_transcription_tasks, wire, avail, server, inputs,
                 recognizer_instances>>

\* process_audio returns: the iteration goes on to its next await
TaskReturn(t) ==
  /\ t \in DOMAIN tasks
  /\ tasks[t].pc = "in_call"
  /\ LoopBody(t, tasks[t].sess, heap)
  /\ UNCHANGED <<now, sessions, conns, active_connections,
                 active_transcription_tasks, avail, server, inputs,
                 recognizer_instances>>

\* what the event loop can run for a dispatcher task or a connection: it
\* must not be inside a recognizer call
DispatcherStep(t) ==
  /\ ~Blocking
  /\ IF t \in DOMAIN tasks /\ tasks[t].pc \in {"nodata_sleep", "iter_sleep"}
        /\ Calls(t)
     THEN TaskCall(t) ELSE TaskWake(t)
InboundFrame(w) == ~Blocking /\ RecvBinary(w, <<500>>)
FirstStep(t) == ~Blocking /\ TaskStart(t)
Connect(w, sid) == ~Blocking /\ Accept(w, sid)

\* two clients, each with a session of its own
TwoIds == {"s1", "s2"}
BlockingInit ==
  /\ now = 0
  /\ heap = <<>>
  /\ sessions = [sid \in TwoIds |-> 0]
  /\ conns = [w \in Sockets |->
               [pc |-> "idle", sid |-> "none", sess |-> 0, victim |-> 0]]
  /\ tasks = <<>>
  /\ active_connections = [sid \in TwoIds |-> 0]
  /\ active_transcription_tasks = [sid \in TwoIds |-> 0]
  /\ wire = <<>>
  /\ avail = OnlyVosk
  /\ inputs = 0
  /\ server = "up"
  /\ recognizer_instances = <<>>

BlockingNext ==
  \/ Connect(1, "s1")
  \/ Connect(2, "s2")
  \/ \E w \in {1, 2} : InboundFrame(w)
  \/ \E t \in TaskIds : FirstStep(t)
  \/ \E t \in TaskIds : DispatcherStep(t)
  \/ \E t \in TaskIds : TaskReturn(t)

BlockingSpec == BlockingInit /\ [][BlockingNext]_vars

\* one client that streams and may switch the partial results off
PartialNext ==
  \/ \E sid \in SessionIds : Accept(1, sid)
  \/ RecvBinary(1, <<500>>)
  \/ RecvText(1, ConfigNoPartials)
  \/ RecvText(1, MetadataEn)
  \/ \E t \in TaskIds : TaskStart(t)
  \/ \E t \in TaskIds : TaskWake(t)

PartialSpec == Init /\ [][PartialNext]_vars

\* clients that connect, stream and send every kind of control message
\* while the clock advances and the reaper runs
ActivityFrames == {Ping1, MetadataEn, ConfigSilence0}
ActivityNext ==
  \/ \E w \in Sockets, sid \in SessionIds : Accept(w, sid)
  \/ \E w \in Sockets : RecvBinary(w, <<500>>)
  \/ \E w \in Sockets, text \in ActivityFrames : RecvText(w, text)
  \/ \E w \in Sockets : RecvResetCancel(w)
  \/ \E w \in Sockets : RecvResetDirect(w)
  \/ \E w \in Sockets : ResetResume(w)
  \/ \E t \in TaskIds : TaskStart(t)
  \/ \E t \in TaskIds : TaskWake(t)
  \/ \E t \in TaskIds : TaskCancelled(t)
  \/ ReaperTick
  \/ Tick

ActivitySpec == Init /\ [][ActivityNext]_vars

\* the shutdown event of the application: shutdown_event writes a log line
\* and returns; it touches no connection, no session and no task
Shutdown ==
  /\ server = "up"
  /\ server' = "down"
  /\ UNCHANGED <<now, heap, sessions, conns, tasks, active_connections,
                 active_transcription_tasks, wire, avail, inputs,
                 recognizer_instances>>

\* a server with one client that streams or leaves, until the shutdown
\* event has been handled
ShutdownNext ==
  \/ server = "up" /\ \E sid \in SessionIds : Accept(1, sid)
  \/ server = "up" /\ Disconnect(1)
  \/ server = "up" /\ RecvBinary(1, <<500>>)
  \/ server = "up" /\ \E t \in TaskIds : TaskStart(t)
  \/ server = "up" /\ \E t \in TaskIds : TaskWake(t)
  \/ server = "up" /\ \E t \in TaskIds : TaskCancelled(t)
  \/ Shutdown

ShutdownSpec == Init /\ [][ShutdownNext]_vars

PingNext ==
  \/ \E sid \in SessionIds : Accept(1, sid)
  \/ \E chunk \in SmallChunks : RecvBinary(1, chunk)
  \/ \E text \in PingFrames : RecvText(1, text)
  \/ \E t \in TaskIds : TaskStart(t)
  \/ \E t \in TaskIds : TaskWake(t)
  \/ \E t \in TaskIds : TaskCancelled(t)
  \/ \E t \in TaskIds : TaskErrSent(t)
  \/ ReaperTick
  \/ Tick

PingSpec == Init /\ [][PingNext]_vars

\* One client sends audio in frames of 0.5 s and the config and metadata
\* messages of EngineFrames, on a server with vosk only or with no engine
\* at all.
NoEngine == [e \in Engines |-> NotInstalled]
EngineInit ==
  /\ now = 0
  /\ heap = <<>>
  /\ sessions = [sid \in SessionIds |-> 0]
  /\ conns = [w \in Sockets |->
               [pc |-> "idle", sid |-> "none", sess |-> 0, victim |-> 0]]
  /\ tasks = <<>>
  /\ active_connections = [sid \in SessionIds |-> 0]
  /\ active_transcription_tasks = [sid \in SessionIds |-> 0]
  /\ wire = <<>>
  /\ avail \in {OnlyVosk, NoEngine}
  /\ inputs = 0
  /\ server = "up"
  /\ recognizer_instances = <<>>

EngineNext ==
  \/ \E sid \in SessionIds : Accept(1, sid)
  \/ RecvBinary(1, <<500, 500>>)
  \/ \E text \in EngineFrames : RecvText(1, text)
  \/ \E t \in TaskIds : TaskStart(t)
  \/ \E t \in TaskIds : TaskWake(t)
  \/ Tick

EngineSpec == EngineInit /\ [][EngineNext]_vars

\* Two clients are connected to the same session id when the run starts:
\* the state after two accepts.  They send audio and resets and hang up,
\* and further clients connect; the clock stands still.
SharedInit ==
  /\ now = 0
  /\ heap = <<AudioSession(AudioMetadata, TranscriptionConfig, 0, OnlyVosk)>>
  /\ sessions = [sid \in SessionIds |-> 1]
  /\ conns = [w \in Sockets |->
               IF w <= 2
               THEN [pc |-> "recv", sid |-> "s1", sess |-> 1, victim |-> 0]
               ELSE [pc |-> "idle", sid |-> "none", sess |-> 0, victim |-> 0]]
  /\ tasks = <<>>
  /\ active_connections = [sid \in SessionIds |-> 2]
  /\ active_transcription_tasks = [sid \in SessionIds |-> 0]
  /\ wire = <<[ws |-> 1, type |-> "connection_status", session_id |-> "s1"],
              [ws |-> 2, type |-> "connection_status", session_id |-> "s1"]>>
  /\ avail = OnlyVosk
  /\ inputs = 0
  /\ server = "up"
  /\ recognizer_instances = <<>>

SharedNext ==
  \/ \E w \in Sockets, sid \in SessionIds : Accept(w, sid)
  \/ \E w \in Sockets : Disconnect(w)
  \/ \E w \in Sockets : RecvBinary(w, <<500>>)
  \/ \E w \in Sockets : RecvResetCancel(w)
  \/ \E w \in Sockets : RecvResetDirect(w)
  \/ \E w \in Sockets : ResetResume(w)
  \/ \E t \in TaskIds : TaskStart(t)
  \/ \E t \in TaskIds : TaskWake(t)
  \/ \E t \in TaskIds : TaskCancelled(t)

SharedSpec == SharedInit /\ [][SharedNext]_vars

\* ------------------------------------------------------------ REST API
\* the engine names a request may carry
EngineNames == {"auto", "whisper", "Whisper", "vosk", "sr",
                "speechrecognition", "bogus"}
\* hasattr(recognizer, "transcribe_file"): WhisperRecognizer only
has_transcribe_file(e) == e = "whisper"

\* POST /transcribe: the status of the response and what create_recognizer
\* gave (NoInstance when it was not called).  HTTPException is an Exception,
\* so the ones raised inside the try block are caught by its except clause
\* and answered with 500.
transcribe_file(engine, av) ==
  IF engine = "whisper" /\ ~av["whisper"].probe
  THEN [status |-> 400, created |-> NoInstance]
  ELSE IF engine = "vosk" /\ ~av["vosk"].probe
  THEN [status |-> 400, created |-> NoInstance]
  ELSE LET r == factory_create(engine, av)
       IN IF r.engine = "none" THEN [status |-> 500, created |-> r]
          ELSE IF has_transcribe_file(r.engine)
          THEN [status |-> 200, created |-> r]
          ELSE [status |-> 500, created |-> r]

\* a POST /transcribe request is answered
CallTranscribe(engine) ==
  /\ inputs < MaxCalls
  /\ inputs' = inputs + 1
  /\ wire' = Append(wire, [ws |-> 0, type |-> "http", engine |-> engine]
                            @@ transcribe_file(engine, avail))
  /\ UNCHANGED <<now, heap, sessions, conns, tasks, active_connections,
                 active_transcription_tasks, avail, server,
                 recognizer_instances>>

\* a server with no session and no connection, in every state the three
\* engines can be in
ApiInit ==
  /\ now = 0
  /\ heap = <<>>
  /\ sessions = [sid \in SessionIds |-> 0]
  /\ conns = [w \in Sockets |->
               [pc |-> "idle", sid |-> "none", sess |-> 0, victim |-> 0]]
  /\ tasks = <<>>
  /\ active_connections = [sid \in SessionIds |-> 0]
  /\ active_transcription_tasks = [sid \in SessionIds |-> 0]
  /\ wire = <<>>
  /\ avail \in [Engines -> EngineStates]
  /\ inputs = 0
  /\ server = "up"
  /\ recognizer_instances = <<>>

ApiNext == \E engine \in EngineNames : CallTranscribe(engine)

\* get_or_create_recognizer(engine, 16000, "vi"[, model_size=...]) is
\* called; the call and what it returned are noted on wire
CallGetOrCreate(engine, model_size) ==
  /\ inputs < MaxCalls
  /\ inputs' = inputs + 1
  /\ LET r == get_or_create_recognizer(recognizer_instances, engine, "vi",
                                       DEFAULT_SAMPLE_RATE, model_size,
                                       avail)
     IN /\ recognizer_instances' = r.instances
        /\ wire' = Append(wire,
                     [ws |-> 0, type |-> "instance", engine |-> engine,
                      key |-> recognizer_key(engine, "vi",
                                DEFAULT_SAMPLE_RATE, model_size),
                      value |-> r.value])
  /\ UNCHANGED <<now, heap, sessions, conns, tasks, active_connections,
                 active_transcription_tasks, avail, server>>

\* the model files of an engine are put in place while the server runs:
\* its constructor now gives an instance that is available
ModelArrives(e) ==
  /\ avail[e] = NoModel
  /\ avail' = [avail EXCEPT ![e] = Installed]
  /\ UNCHANGED <<now, heap, sessions, conns, tasks, active_connections,
                 active_transcription_tasks, wire, inputs, server,
                 recognizer_instances>>

FactoryNames == {"auto", "whisper", "Whisper", "vosk"}
FactoryNext ==
  \/ \E engine \in FactoryNames, model_size \in {"", "small"} :
       CallGetOrCreate(engine, model_size)
  \/ \E e \in Engines : ModelArrives(e)

FactorySpec == ApiInit /\ [][FactoryNext]_vars

ApiSpec == ApiInit /\ [][ApiNext]_vars

\* ------------------------------------------------------------ method calls
\* The methods of AudioSession called directly on one session object, as
\* the dispatcher and the message handler call them.  The sessions with a
\* sample rate of 1 or 2 Hz keep their buffer byte by byte, so that window
\* and overlap sizes which are no whole number of bytes are covered; the
\* others keep it in blocks of 0.25 s as everywhere else.
Int16Metadata == [AudioMetadata EXCEPT !.encoding = "int16"]
TinyMetadata == {[AudioMetadata EXCEPT !.sample_rate = r] : r \in {1, 2}}
\* <<window_size, buffer_overlap>> in ms: the defaults, sizes that are no
\* whole number of bytes at 1 or 2 Hz, and an overlap above the window
WindowSizes == {<<DEFAULT_WINDOW_MS, DEFAULT_OVERLAP_MS>>, <<600, 100>>,
                <<700, 300>>, <<250, 500>>}
ProbeConfigs ==
  {[TranscriptionConfig EXCEPT !.window_size = x[1], !.buffer_overlap = x[2]] :
     x \in WindowSizes}
ProbeSessions ==
  {[AudioSession(md, cfg, 0, OnlyVosk) EXCEPT !.block = 1] :
     md \in TinyMetadata, cfg \in ProbeConfigs}
  \cup {AudioSession(md, TranscriptionConfig, 0, OnlyVosk) :
          md \in {AudioMetadata, Int16Metadata}}
ProbeChunks == {<<500>>, <<0, 500>>, <<500, 0, 0>>}
CallTexts == {"", " ", " hello ", "hello"}

\* a session that is in the manager and has no connection and no task
ProbeInit(ss) ==
  /\ now = 0
  /\ heap \in {<<s>> : s \in ss}
  /\ sessions = [sid \in SessionIds |-> 1]
  /\ conns = [w \in Sockets |->
               [pc |-> "idle", sid |-> "none", sess |-> 0, victim |-> 0]]
  /\ tasks = <<>>
  /\ active_connections = [sid \in SessionIds |-> 0]
  /\ active_transcription_tasks = [sid \in SessionIds |-> 0]
  /\ wire = <<>>
  /\ avail = OnlyVosk
  /\ inputs = 0
  /\ server = "up"
  /\ recognizer_instances = <<>>

\* session.add_audio_chunk(chunk)
CallAddChunk(chunk) ==
  /\ inputs < MaxInputs
  /\ inputs' = inputs + 1
  /\ heap' = [heap EXCEPT ![1] =
                add_audio_chunk(@, [i \in DOMAIN chunk |->
                                     [amp |-> chunk[i], ep |-> @.epoch]], now)]
  /\ UNCHANGED <<now, sessions, conns, tasks, active_connections,
                 active_transcription_tasks, wire, avail, server,
                 recognizer_instances>>

\* session.get_audio_for_processing(): None leaves the session as it is
CallGetAudio ==
  /\ inputs < MaxInputs
  /\ inputs' = inputs + 1
  /\ heap' = [heap EXCEPT ![1] =
                IF has_window(@) THEN get_audio_for_processing(@) ELSE @]
  /\ UNCHANGED <<now, sessions, conns, tasks, active_connections,
                 active_transcription_tasks, wire, avail, server,
                 recognizer_instances>>

\* session.add_transcript(text, is_partial)
CallAddTranscript(text, is_partial) ==
  /\ inputs < MaxInputs
  /\ inputs' = inputs + 1
  /\ heap' = [heap EXCEPT ![1] = add_transcript(@, text, is_partial)]
  /\ UNCHANGED <<now, sessions, conns, tasks, active_connections,
                 active_transcription_tasks, wire, avail, server,
                 recognizer_instances>>

BufferNext ==
  \/ \E chunk \in ProbeChunks : CallAddChunk(chunk)
  \/ CallGetAudio

BufferSpec == ProbeInit(ProbeSessions) /\ [][BufferNext]_vars

\* the two buffer methods called on a session while the clock advances
CounterNext ==
  \/ \E chunk \in ProbeChunks : CallAddChunk(chunk)
  \/ CallGetAudio
  \/ Tick

CounterSpec == ProbeInit(ProbeSessions) /\ [][CounterNext]_vars

\* recognizer.process_audio on the recognizer of the session, with ms of
\* audio, the engine behaving as out says
CallProcessAudio(ms, out) ==
  /\ inputs < MaxInputs
  /\ inputs' = inputs + 1
  /\ out \in Outcomes(heap[1].recognizer.engine)
  /\ heap' = [heap EXCEPT ![1].recognizer =
                backend_process_audio(@, ms, now, out)]
  /\ UNCHANGED <<now, sessions, conns, tasks, active_connections,
                 active_transcription_tasks, wire, avail, server,
                 recognizer_instances>>

\* d seconds pass
Elapse(d) ==
  /\ inputs < MaxInputs
  /\ inputs' = inputs + 1
  /\ now' = now + d
  /\ UNCHANGED <<heap, sessions, conns, tasks, active_connections,
                 active_transcription_tasks, wire, avail, server,
                 recognizer_instances>>

\* instances of the three back-ends, available or not, built at time 0
Backends ==
  {Backend(e, a, p, 0) : e \in Engines, a \in BOOLEAN, p \in BOOLEAN}
BackendSessions ==
  {[AudioSession(AudioMetadata, TranscriptionConfig, 0, OnlyVosk)
      EXCEPT !.recognizer = b] : b \in Backends}
AudioMs == {200, 500}
AllOutcomes == UNION {Outcomes(e) : e \in Engines}

BackendNext ==
  \/ \E ms \in AudioMs, out \in AllOutcomes : CallProcessAudio(ms, out)
  \/ \E d \in {1, 3} : Elapse(d)

BackendSpec == ProbeInit(BackendSessions) /\ [][BackendNext]_vars

TranscriptNext ==
  \E text \in CallTexts, is_partial \in BOOLEAN :
    CallAddTranscript(text, is_partial)

TranscriptSpec ==
  ProbeInit({AudioSession(AudioMetadata, TranscriptionConfig, 0, OnlyVosk)})
  /\ [][TranscriptNext]_vars

\* ------------------------------------------------------------ properties
TasksOf(sid) == {t \in DOMAIN tasks : tasks[t].sid = sid}
LiveTasksOf(sid) == {t \in TasksOf(sid) : Live(t)}
\* live and not yet asked to stop
RunningTasksOf(sid) == {t \in LiveTasksOf(sid) : ~tasks[t].cancel}
Transcripts == {i \in DOMAIN wire : wire[i].type = "transcript"}

\* C1: every session id has at most one live dispatcher task, whatever the
\* interleaving of accepts, frames, resets, disconnects and reaper ticks.
\* A task that was cancelled and only waits to run its cancellation handler
\* is not counted, which favours the code.
C1_OneDispatcherPerSession ==
  \A sid \in SessionIds : Cardinality(RunningTasksOf(sid)) <= 1

\* a reset handler finishes on session object o in this step
ResetDone(o) == heap'[o].epoch = heap[o].epoch + 1
LastFrame == wire'[Len(wire')]

C3_NoExitOnRecognizerError ==
  \A t \in DOMAIN tasks :
    tasks[t].pc = "done" => tasks[t].exit # "recognizer_error"

\* C4: handling a reset cancels the current task, clears the buffers,
\* rebuilds the recognizer, spawns a fresh task and sends exactly one
\* reset_completed frame; when the handler finishes the raw buffer is empty,
\* the cancelled task has ended and the new task has not run yet.
C4_ResetSequence ==
  [][\A o \in DOMAIN heap :
       ResetDone(o) =>
         LET w == LastFrame.ws
             old == conns[w].victim
             new == Len(tasks')
         IN /\ wire' = Append(wire, LastFrame)
            /\ LastFrame.type = "status"
            /\ LastFrame.status = "reset_completed"
            /\ Open(w) /\ conns[w].sess = o
            /\ conns[w].pc = "reset_wait" =>
                 old # 0 /\ tasks[old].pc = "done" /\ tasks'[old].pc = "done"
            /\ conns[w].pc = "recv" =>
                 active_transcription_tasks[conns[w].sid] = 0
            /\ heap'[o].raw_buffer = <<>>
            /\ heap'[o].audio_buffer = <<>>
            /\ heap'[o].recognizer.heard = {}
            /\ heap'[o].recognizer.resets = 0
            /\ heap'[o].transcript_buffer = heap[o].transcript_buffer
            /\ new = Len(tasks) + 1
            /\ tasks'[new].pc = "new"
            /\ tasks'[new].sid = conns[w].sid
            /\ tasks'[new].ws = w]_vars

C4_Witness ==
  /\ wire # <<>> /\ wire[Len(wire)].type = "status"
  /\ tasks # <<>> /\ tasks[Len(tasks)].pc = "new"
  /\ \E t \in DOMAIN tasks :
       tasks[t].pc = "done" /\ tasks[t].exit = "cancelled" /\ tasks[t].cancel
  /\ \E o \in DOMAIN heap :
       /\ heap[o].epoch >= 1 /\ heap[o].windows >= 1
       /\ heap[o].raw_buffer = <<>>

\* C5: a reset that follows a reset with no audio and no connect or
\* disconnect in between leaves the
\* session in the same observable state as the first one did (buffer,
\* history, current and partial transcript, is_speaking, is_processing,
\* number of dispatcher tasks at work) and sends its own reset_completed.
\* Only sessions that are still in the session manager are looked at.
C5_ResetIdempotent ==
  [][\A o \in DOMAIN heap :
       (/\ ResetDone(o) /\ heap[o].after_reset # <<>>
        /\ \E sid \in SessionIds : sessions[sid] = o /\ sessions'[sid] = o) =>
         /\ heap'[o].after_reset = heap[o].after_reset
         /\ wire' = Append(wire, LastFrame)
         /\ LastFrame.type = "status"]_vars

\* C6: once a reset has been handled, no transcript is derived from audio
\* received before it: the buffer and the decoder only hold audio of the
\* current epoch, and every transcript sent rests on audio of the epoch in
\* which it was sent.
C6_NoAudioAcrossReset ==
  /\ \A o \in DOMAIN heap :
       /\ \A i \in DOMAIN heap[o].raw_buffer :
            heap[o].raw_buffer[i].ep = heap[o].epoch
       /\ heap[o].recognizer.heard \subseteq {heap[o].epoch}
  /\ \A i \in Transcripts : wire[i].src = {wire[i].ep}

C6_Witness ==
  \E i \in Transcripts :
    /\ wire[i].ep >= 1
    /\ heap[wire[i].obj].dropped >= 1

\* C7: a cancelled dispatcher task ends without starting another loop
\* iteration, and a session of the manager without a live dispatcher task
\* has is_processing = false.  A task that was asked to stop stays so until
\* it is done and takes no step of its loop meanwhile; again and again no
\* task is left waiting for its cancellation, so each of them ends.
C7_CancelledTaskExits ==
  /\ [](\A sid \in SessionIds :
          (sessions[sid] # 0 /\ LiveTasksOf(sid) = {}) =>
            ~heap[sessions[sid]].is_processing)
  /\ [][\A t \in DOMAIN tasks :
          PendingCancel(t) =>
            /\ tasks'[t].cancel
            /\ tasks'[t].pc \in {tasks[t].pc, "done"}
            /\ ~(TaskStart(t) \/ TaskWake(t) \/ TaskErrSent(t))]_vars
  /\ []<>(\A t \in DOMAIN tasks : ~PendingCancel(t))

C7_Witness ==
  \E t \in DOMAIN tasks :
    /\ tasks[t].pc = "done" /\ tasks[t].cancel /\ tasks[t].exit = "cancelled"
    /\ sessions[tasks[t].sid] # 0
    /\ heap[sessions[tasks[t].sid]].windows >= 1
    /\ LiveTasksOf(tasks[t].sid) = {}

\* C8: the reaper deletes a session if and only if its age exceeds MAX_AGE
\* at the tick: no session of age <= 30 min is ever removed, and a tick
\* removes every session older than that.
C8_ReaperIff ==
  [][/\ \A sid \in SessionIds :
          (sessions[sid] # 0 /\ sessions'[sid] = 0) =>
            now - heap[sessions[sid]].last_activity > 30 * 60
     /\ ReaperTick =>
          \A sid \in SessionIds :
            (sessions[sid] # 0
             /\ now - heap[sessions[sid]].last_activity > 30 * 60) =>
              sessions'[sid] = 0]_vars

C8_Witness ==
  \E sid \in SessionIds :
    /\ sessions[sid] = 0
    /\ \E o \in DOMAIN heap : now - heap[o].last_activity > 30 * 60

\* C9: once a session is deleted, no dispatcher task of its id is registered
\* or at work (a task already asked to stop is not counted).
C9_DeleteStopsTasks ==
  [][\A sid \in SessionIds :
       (sessions[sid] # 0 /\ sessions'[sid] = 0) =>
         /\ active_transcription_tasks'[sid] = 0
         /\ \A t \in DOMAIN tasks' :
              (tasks'[t].sid = sid /\ tasks'[t].pc # "done") =>
                tasks'[t].cancel]_vars

\* metadata and config a caller may pass to create_session
OtherMetadata == [AudioMetadata EXCEPT !.sample_rate = 8000, !.language = "en"]
OtherConfig ==
  [TranscriptionConfig EXCEPT !.engine = "whisper", !.vad_enabled = FALSE]

WindowTaken(o) == heap'[o].windows = heap[o].windows + 1
\* the VAD verdict on the window that o's buffer starts with
Voiced(o) ==
  detect_voice_activity(window_of(heap[o]), heap[o].config.vad_threshold)

\* C11 as stated: is_speaking = true implies that silence_start is null.
C11_SpeakingNoSilence ==
  \A o \in DOMAIN heap :
    heap[o].is_speaking => heap[o].silence_start = NoTime

\* C11: is_speaking = true implies that silence_start is null except in
\* trailing silence: with VAD enabled every voiced window leaves is_speaking
\* = true and silence_start null, and silence_start is only written by a
\* non-voiced window taken while is_speaking = true and silence_start was
\* null, which records the current time.
C11_SpeakingOrTrailing ==
  [][\A o \in DOMAIN heap :
       /\ (WindowTaken(o) /\ heap[o].config.vad_enabled /\ Voiced(o)) =>
            heap'[o].is_speaking /\ heap'[o].silence_start = NoTime
       /\ (heap'[o].silence_start # heap[o].silence_start
           /\ heap'[o].silence_start # NoTime) =>
            /\ WindowTaken(o) /\ ~Voiced(o)
            /\ heap[o].is_speaking /\ heap'[o].is_speaking
            /\ heap[o].silence_start = NoTime
            /\ heap'[o].silence_start = now]_vars

\* trailing silence: speech was heard, then a non-voiced window
C11_Witness ==
  \E o \in DOMAIN heap :
    /\ heap[o].is_speaking /\ heap[o].silence_start # NoTime
    /\ heap[o].windows >= 2

\* C12: is_speaking only goes from true to false on a non-voiced window
\* taken while silence_start is set and more than config.silence_duration
\* has passed since it was recorded; while is_speaking is true a recorded
\* silence_start is never moved, only cleared, and only by a voiced window,
\* so no voiced window lies between the recording and the transition.  A
\* voiced window during trailing silence clears the timer and keeps
\* is_speaking = true.
C12_SilenceTimer ==
  [][\A o \in DOMAIN heap :
       /\ (heap[o].is_speaking /\ ~heap'[o].is_speaking) =>
            /\ WindowTaken(o) /\ heap[o].config.vad_enabled /\ ~Voiced(o)
            /\ heap[o].silence_start # NoTime
            /\ heap'[o].silence_start = heap[o].silence_start
            /\ (now - heap[o].silence_start) * 1000
                 > heap[o].config.silence_duration
       /\ (heap[o].is_speaking /\ heap[o].silence_start # NoTime
           /\ heap'[o].silence_start # heap[o].silence_start) =>
            /\ WindowTaken(o) /\ Voiced(o)
            /\ heap'[o].silence_start = NoTime
       /\ (heap[o].is_speaking /\ heap[o].silence_start # NoTime
           /\ WindowTaken(o) /\ heap[o].config.vad_enabled /\ Voiced(o)) =>
            heap'[o].is_speaking /\ heap'[o].silence_start = NoTime]_vars

\* speech has ended: two non-voiced windows, the second one late enough
C12_Witness ==
  \E o \in DOMAIN heap :
    /\ ~heap[o].is_speaking /\ heap[o].silence_start # NoTime
    /\ (now - heap[o].silence_start) * 1000 > heap[o].config.silence_duration
    /\ heap[o].windows >= 3

\* C13 as stated: with VAD enabled and a recognizer, when a voiced window
\* follows speech and a silence region longer than config.silence_duration,
\* reset() has been called exactly once since the last voiced window.
C13_ResetPerSilence ==
  [][\A o \in DOMAIN heap :
       (/\ WindowTaken(o) /\ heap[o].config.vad_enabled /\ Voiced(o)
        /\ heap[o].recognizer.engine # "none"
        /\ heap[o].quiet_ms > heap[o].config.silence_duration) =>
         heap[o].gap_resets = 1]_vars

\* C13: with VAD enabled the dispatcher calls recognizer.reset() on the
\* step that takes is_speaking from true to false and on no other step, so
\* at most once between two voiced windows and not again for the non-voiced
\* windows that follow; the call is made only when a non-voiced window is
\* taken more than config.silence_duration of clock time after
\* silence_start was recorded, whatever the length of the silent audio.
C13_ResetOnTransition ==
  /\ [](\A o \in DOMAIN heap : heap[o].gap_resets <= 1)
  /\ [][\A o \in DOMAIN heap :
          /\ (heap[o].is_speaking /\ ~heap'[o].is_speaking
              /\ heap[o].recognizer.engine # "none") =>
               heap'[o].gap_resets = heap[o].gap_resets + 1
          /\ heap'[o].gap_resets > heap[o].gap_resets =>
               /\ heap[o].is_speaking /\ ~heap'[o].is_speaking
               /\ WindowTaken(o) /\ ~Voiced(o)
               /\ (now - heap[o].silence_start) * 1000
                    > heap[o].config.silence_duration
          /\ (heap'[o].recognizer.resets > heap[o].recognizer.resets) =>
               heap'[o].gap_resets > heap[o].gap_resets]_vars

\* after speech: a non-voiced window that ended the speech with one reset()
\* call, and a further non-voiced window
C13_Witness ==
  \E o \in DOMAIN heap :
    /\ ~heap[o].is_speaking /\ heap[o].gap_resets = 1
    /\ heap[o].quiet_ms >= heap[o].config.window_size
         + 2 * (heap[o].config.window_size - heap[o].config.buffer_overlap)

\* the session object the method calls are made on
Probe == heap[1]
CeilDiv(a, b) == (a + b - 1) \div b
\* window_size * sample_rate * 4 in thousandths of a byte
WindowMilliBytes(s) == s.config.window_size * s.metadata.sample_rate * 4
OverlapMilliBytes(s) == s.config.buffer_overlap * s.metadata.sample_rate * 4
\* a call of get_audio_for_processing that gave None
GaveNone == CallGetAudio /\ ~WindowTaken(1) /\ heap' = heap

Removed == buffer_len(Probe) - buffer_len(heap'[1])
\* floor(window_size * bps) - floor(buffer_overlap * bps), 0 if negative
Advance(s) ==
  LET d == WindowMilliBytes(s) \div 1000 - OverlapMilliBytes(s) \div 1000
  IN IF d > 0 THEN d ELSE 0

\* C15 as stated, for configs with 0 <= buffer_overlap < window_size: each
\* successful get_audio_for_processing removes exactly
\* (window_size - buffer_overlap) * bytes_per_sec bytes.
C15_AdvanceExact ==
  [][(/\ CallGetAudio /\ WindowTaken(1)
      /\ 0 <= Probe.config.buffer_overlap
      /\ Probe.config.buffer_overlap < Probe.config.window_size) =>
       Removed * 1000 = WindowMilliBytes(Probe) - OverlapMilliBytes(Probe)]_vars

\* C15: each successful get_audio_for_processing removes exactly
\* floor(window_size * bps) - floor(buffer_overlap * bps) bytes from the
\* head of the buffer, nothing if that is not positive; after N successful
\* calls N times that many bytes have been consumed; and when bytes were
\* removed the last floor(buffer_overlap * bps) bytes of the window are
\* the head of the buffer and of the next window.
C15_AdvanceFloor ==
  /\ [](Probe.total_bytes - buffer_len(Probe)
          = Probe.windows * Advance(Probe))
  /\ [][(CallGetAudio /\ WindowTaken(1)) =>
          LET ov == (OverlapMilliBytes(Probe) \div 1000) \div Probe.block
              win == heap'[1].returned
          IN /\ Removed = Advance(Probe)
             /\ heap'[1].raw_buffer
                  = DropHead(Probe.raw_buffer, Advance(Probe) \div Probe.block)
             /\ Advance(Probe) > 0 =>
                  /\ SubSeq(heap'[1].raw_buffer, 1, ov)
                       = SubSeq(win, Len(win) - ov + 1, Len(win))
                  /\ Probe.windows >= 1 =>
                       SubSeq(win, 1, ov)
                         = SubSeq(Probe.returned, Len(win) - ov + 1,
                                  Len(win))]_vars

\* two windows of a size that had to be rounded, with an overlap between
\* them
C15_Witness ==
  /\ Probe.windows >= 2
  /\ (WindowMilliBytes(Probe) - OverlapMilliBytes(Probe)) % 1000 # 0
  /\ OverlapMilliBytes(Probe) \div 1000 >= 1
  /\ Advance(Probe) >= 1

\* two chunks of 32000 bytes have been fed to a session with the default
\* metadata and config (16 kHz float32, window 0.5 s, overlap 0.25 s)
TwoChunksFed ==
  /\ Probe.metadata = AudioMetadata /\ Probe.config = TranscriptionConfig
  /\ Len(Probe.audio_buffer) = 2
  /\ \A i \in 1..2 : Len(Probe.audio_buffer[i]) * Probe.block = 32000

\* C16: with the default sizes, once 32000 and another 32000 bytes have been
\* fed and get_audio_for_processing gives nothing more, it has given 3 or 4
\* windows, however the two add_audio_chunk calls were interleaved with it.
C16_ThreeOrFour ==
  TwoChunksFed =>
    /\ Probe.windows <= 4
    /\ ~has_window(Probe) => Probe.windows >= 3

C16_Witness ==
  /\ TwoChunksFed /\ ~has_window(Probe) /\ Probe.windows >= 3
  /\ Probe.total_bytes = 64000

\* C17: for a session whose metadata.encoding is int16 a window is given as
\* soon as the buffer holds window_size * sample_rate * 2 bytes, and the
\* chunks fed so far count as total_bytes / (sample_rate * 2) seconds of
\* audio.
C17_Int16Width ==
  Probe.metadata.encoding = "int16" =>
    /\ has_window(Probe) <=>
         buffer_len(Probe) * 1000
           >= Probe.config.window_size * Probe.metadata.sample_rate * 2
    /\ Probe.total_audio_duration * Probe.metadata.sample_rate * 2
         = Probe.total_bytes * 1000

\* C18: every entry of a session's transcript history is non-empty after
\* stripping white space, and add_transcript with is_partial = false and an
\* empty or blank text leaves the history, current_transcript and
\* partial_transcript as they are.
C18_NoBlankHistory ==
  /\ [](\A o \in DOMAIN heap :
          \A i \in DOMAIN heap[o].transcript_buffer :
            strip(heap[o].transcript_buffer[i]) # "")
  /\ [][\A text \in CallTexts :
          (CallAddTranscript(text, FALSE) /\ strip(text) = "") =>
            /\ heap'[1].transcript_buffer = Probe.transcript_buffer
            /\ heap'[1].current_transcript = Probe.current_transcript
            /\ heap'[1].partial_transcript = Probe.partial_transcript]_vars

\* a text with white space around it is in the history, a partial text is
\* pending and some call added nothing to the history
C18_Witness ==
  /\ \E i \in DOMAIN Probe.transcript_buffer :
       Probe.transcript_buffer[i] = " hello "
  /\ Probe.partial_transcript = " "
  /\ inputs > Len(Probe.transcript_buffer) + 1

\* C19: the config of every session has 0 <= buffer_overlap < window_size,
\* vad_threshold >= 0 and silence_duration >= 0; a config message with a
\* value out of range therefore leaves the config as it was.
C19_ConfigInRange ==
  \A o \in DOMAIN heap :
    /\ 0 <= heap[o].config.buffer_overlap
    /\ heap[o].config.buffer_overlap < heap[o].config.window_size
    /\ heap[o].config.vad_threshold >= 0
    /\ heap[o].config.silence_duration >= 0

\* text frames that are no JSON or have an unknown type
JunkFrames == {NotJson, UnknownType}

\* C20 as stated: a text frame that is no JSON, or JSON with an unknown
\* type, changes nothing of the session and its task, sends no frame and
\* leaves the connection open.
C20_JunkIgnored ==
  [][\A text \in JunkFrames :
       RecvText(1, text) =>
         /\ heap' = heap /\ sessions' = sessions /\ wire' = wire
         /\ tasks' = tasks
         /\ active_transcription_tasks' = active_transcription_tasks
         /\ conns'[1].pc = "recv"]_vars

\* C20: such a frame changes nothing of the session and its task and sends
\* no frame; it leaves the connection open, waiting for the next frame, as
\* long as the session is still in the session manager.  When the reaper
\* has deleted the session the endpoint's loop ends after the frame.
C20_JunkIgnoredWhileRegistered ==
  [][\A text \in JunkFrames :
       RecvText(1, text) =>
         /\ heap' = heap /\ sessions' = sessions /\ wire' = wire
         /\ tasks' = tasks
         /\ active_transcription_tasks' = active_transcription_tasks
         /\ IF sessions[conns[1].sid] # 0
            THEN conns' = conns /\ active_connections' = active_connections
            ELSE conns'[1].pc = "closed"
                 /\ active_connections'[conns[1].sid] = 0]_vars

\* the connection is open after text frames that changed nothing, audio
\* has been worked on and a transcript sent
C20_Witness ==
  /\ conns[1].pc = "recv" /\ sessions[conns[1].sid] = conns[1].sess
  /\ LET s == heap[conns[1].sess]
     IN /\ s.config = TranscriptionConfig
        /\ inputs - 1 - s.packets_received >= 1
        /\ s.windows >= 1
  /\ Transcripts # {}

\* the pong frames on the wire, in send order
RECURSIVE Pongs(_)
Pongs(wr) ==
  IF wr = <<>> THEN <<>>
  ELSE IF wr[1].type = "pong" THEN <<wr[1].timestamp>> \o Pongs(Tail(wr))
  ELSE Pongs(Tail(wr))

\* C21: a ping is answered by exactly one pong frame on its socket that
\* carries the ping's timestamp (null if it has none), sent after every
\* frame sent before; pongs are only sent for pings, so they leave in the
\* order in which the pings came in; and handling a ping changes nothing of
\* any session and of the session map.
C21_PingPong ==
  [][/\ \A text \in PingFrames :
          RecvText(1, text) =>
            /\ wire' = Append(wire, [ws |-> 1, type |-> "pong",
                                     timestamp |-> json_loads(text).timestamp])
            /\ heap' = heap /\ sessions' = sessions
     /\ Pongs(wire') # Pongs(wire) =>
          \E text \in PingFrames :
            /\ RecvText(1, text)
            /\ Pongs(wire') = Append(Pongs(wire), json_loads(text).timestamp)
    ]_vars

\* two pings were answered in their order, the later timestamp first, with
\* a transcript sent in between
C21_Witness ==
  /\ Pongs(wire) = <<2, 1>>
  /\ \E i, j, k \in DOMAIN wire :
       /\ i < j /\ j < k
       /\ wire[i].type = "pong" /\ wire[j].type = "transcript"
       /\ wire[k].type = "pong"

\* the factory cannot give session s the engine its config asks for
EngineUnavailable(s) == factory_create(s.config.engine, avail).engine = "none"
TranscriptsOf(o) == {i \in Transcripts : wire[i].obj = o}

\* C22: a session whose engine is unavailable has no recognizer, is in the
\* session manager and takes audio, gets no transcript sent, and
\* is_processing stays false for it.
C22_UnavailableEngineIdle ==
  \A o \in DOMAIN heap :
    (EngineUnavailable(heap[o]) /\ heap[o].recognizer.engine = "none") =>
      /\ TranscriptsOf(o) = {}
      /\ ~heap[o].is_processing

\* C23: when a session has no recognizer and a config message names an
\* engine that can be created, the session has a recognizer of that engine
\* once the message is handled.
C23_ConfigRestoresEngine ==
  [][\A text \in {ConfigWhisper, ConfigVosk} :
       LET o == conns[1].sess
           e == json_loads(text).data.engine
       IN (/\ RecvText(1, text)
           /\ heap[o].recognizer.engine = "none"
           /\ factory_create(e, avail).engine = e) =>
            heap'[o].recognizer.engine = e]_vars

ValidMetadata == {MetadataEn, Metadata32k}

\* C30 as stated: after a metadata message is handled the session's
\* metadata is the message's data and its recognizer is a new instance with
\* the sample rate and the language of the new metadata.
C30_MetadataRebuilds ==
  [][\A text \in ValidMetadata :
       RecvText(1, text) =>
         LET s == heap'[conns[1].sess]
         IN /\ s.metadata = AudioMetadataOf(json_loads(text).data)
            /\ s.recognizer.engine # "none"
            /\ s.recognizer.sample_rate = s.metadata.sample_rate
            /\ s.recognizer.language = s.metadata.language
            /\ s.recognizer.heard = {} /\ s.recognizer.resets = 0]_vars

\* C30: after a metadata message that validates is handled the session's
\* metadata is the message's data, with the defaults for the fields it does
\* not give, and its recognizer is what the factory gives for config.engine
\* then: a new instance with the sample rate and the language of the new
\* metadata, or none when that engine cannot be created; a message that
\* does not validate changes nothing.  At every moment a session's
\* recognizer, if it has one, has the sample rate and the language of the
\* session's metadata, so no dispatcher step sees new metadata with an old
\* recognizer.
C30_MetadataRebuildsOrNone ==
  /\ [](\A o \in DOMAIN heap :
          heap[o].recognizer.engine # "none" =>
            /\ heap[o].recognizer.sample_rate = heap[o].metadata.sample_rate
            /\ heap[o].recognizer.language = heap[o].metadata.language)
  /\ [][/\ \A text \in ValidMetadata :
             RecvText(1, text) =>
               LET s == heap'[conns[1].sess]
                   e == factory_create(s.config.engine, avail).engine
               IN /\ s.metadata = AudioMetadataOf(json_loads(text).data)
                  /\ s.config = heap[conns[1].sess].config
                  /\ s.recognizer.engine = e
                  /\ s.recognizer.heard = {} /\ s.recognizer.resets = 0
                  /\ e # "none" =>
                       /\ s.recognizer.sample_rate = s.metadata.sample_rate
                       /\ s.recognizer.language = s.metadata.language
         /\ RecvText(1, MetadataBad) => heap' = heap]_vars

\* a recognizer built for a metadata message has worked on a window and a
\* transcript was sent
C30_Witness ==
  \E i \in Transcripts :
    LET s == heap[wire[i].obj]
    IN /\ s.metadata # AudioMetadata
       /\ s.recognizer.engine # "none"
       /\ s.recognizer.language = s.metadata.language
       /\ s.recognizer.heard # {}

\* the session object without its history field after_reset
Core(s) == [s EXCEPT !.after_reset = <<>>]

\* C24: when a client disconnects, no dispatcher task is registered for
\* the session's id afterwards and, if that was the last open connection of
\* the id, none is at work for it either (a task already asked to stop is
\* not counted); the session stays in the session manager with its buffer,
\* transcripts and counters as they were, and only a reaper tick removes
\* it; a connection accepted on the id before that gets the same session.
C24_DisconnectKeepsSession ==
  [][/\ \A w \in Sockets :
          Disconnect(w) =>
            LET sid == conns[w].sid
            IN /\ active_transcription_tasks'[sid] = 0
               /\ (\A v \in Sockets \ {w} :
                     ~(Open(v) /\ conns[v].sid = sid)) =>
                    \A t \in DOMAIN tasks' :
                      (tasks'[t].sid = sid /\ tasks'[t].pc # "done") =>
                        tasks'[t].cancel
               /\ sessions' = sessions
               /\ \A o \in DOMAIN heap : Core(heap'[o]) = Core(heap[o])
     /\ \A sid \in SessionIds :
          (sessions[sid] # 0 /\ sessions'[sid] # sessions[sid]) => ReaperTick
     /\ \A w \in Sockets, sid \in SessionIds :
          (Accept(w, sid) /\ sessions[sid] # 0) =>
            /\ conns'[w].sess = sessions[sid]
            /\ sessions' = sessions
            /\ Core(heap'[sessions[sid]]) = Core(heap[sessions[sid]])]_vars

\* the constructor of e is reached and gives an instance that is available
Qualifies(e) == avail[e].probe /\ avail[e].ctor = "ok"
Responses == {i \in DOMAIN wire : wire[i].type = "http"}

\* C25: create with engine "auto" returns an instance of the first of
\* whisper, vosk, sr whose availability probe is true and whose constructed
\* instance is available, and nothing exactly when there is none; it
\* constructs the engines whose probe is true in priority order up to the
\* one it returns, none whose probe is false, and does not raise.
C25_AutoPriority ==
  LET r == registry_create("auto", avail)
      first == IF Qualifies("whisper") THEN "whisper"
               ELSE IF Qualifies("vosk") THEN "vosk"
               ELSE IF Qualifies("sr") THEN "sr"
               ELSE "none"
  IN /\ r.engine = first /\ ~r.raised
     /\ r.engine = "none" <=> \A e \in Engines : ~Qualifies(e)
     /\ \A i \in DOMAIN r.built :
          /\ avail[r.built[i]].probe
          /\ i < Len(r.built) => ~Qualifies(r.built[i])
     /\ \A i, j \in DOMAIN priority_order :
          (/\ i < j /\ avail[priority_order[i]].probe
           /\ \E k \in DOMAIN r.built : r.built[k] = priority_order[j]) =>
            \E k \in DOMAIN r.built : r.built[k] = priority_order[i]
     /\ \A i \in Responses :
          lower(wire[i].engine) = "auto" =>
            /\ wire[i].created = r
            /\ wire[i].status = 200 <=> first = "whisper"

\* a request with engine auto was served by sr after the constructor of
\* whisper had raised and vosk had given an instance that is not available
C25_Witness ==
  \E i \in Responses :
    /\ wire[i].engine = "auto"
    /\ wire[i].created.engine = "sr"
    /\ wire[i].created.built = <<"whisper", "vosk", "sr">>
    /\ avail["whisper"].ctor = "raises"

\* C26: create with an explicit engine name never raises and returns either
\* nothing or an available instance of that very engine; nothing exactly
\* when the name is not registered, the probe is false, the constructor
\* raises or the instance is not available; the constructor is not called
\* when the probe is false, and no other engine is tried.
C26_ExplicitNoFallback ==
  /\ \A name \in EngineNames \ {"auto"} :
       LET r == registry_create(name, avail)
       IN /\ ~r.raised
          /\ r.engine \in {"none", name}
          /\ r.engine # "none" => Qualifies(name)
          /\ r.engine = "none" <=>
               \/ name \notin Engines
               \/ ~avail[name].probe
               \/ avail[name].ctor \in {"raises", "unavailable"}
          /\ r.built = IF name \in Engines /\ avail[name].probe
                       THEN <<name>> ELSE <<>>
  /\ \A i \in Responses :
       lower(wire[i].engine) # "auto" /\ wire[i].status # 400 =>
         wire[i].created
           = registry_create(IF wire[i].engine = "speechrecognition"
                             THEN "sr" ELSE lower(wire[i].engine), avail)

\* a request naming vosk got nothing although sr could have served it, and
\* a request naming an engine whose constructor raises was answered
C26_Witness ==
  /\ Qualifies("sr")
  /\ \E i \in Responses :
       /\ wire[i].engine = "vosk" /\ wire[i].created.engine = "none"
       /\ wire[i].created.built = <<"vosk">>
  /\ \E i \in Responses :
       /\ wire[i].engine = "whisper" /\ avail["whisper"].ctor = "raises"
       /\ wire[i].created.engine = "none"

\* C27: POST /transcribe answers 400 when the engine named in the request
\* cannot be created, and 501 when the recognizer created has no
\* transcribe_file.
C27_TranscribeStatus ==
  \A i \in Responses :
    LET name == lower(wire[i].engine)
        e == IF name = "speechrecognition" THEN "sr" ELSE name
    IN /\ (e \in Engines /\ ~Qualifies(e)) => wire[i].status = 400
       /\ (wire[i].created.engine # "none"
           /\ ~has_transcribe_file(wire[i].created.engine)) =>
            wire[i].status = 501

\* C28: once the shutdown event has been handled no dispatcher task is
\* still running: every live task was cancelled and awaited.
C28_ShutdownStopsTasks ==
  server = "down" => \A t \in DOMAIN tasks : ~Live(t)

\* the transcript history and the partial of a session
History(s) ==
  <<s.transcript_buffer, s.current_transcript, s.partial_transcript>>

\* C29: a dispatcher task whose cancellation has been requested takes no
\* further step of its loop: the only step left to it is the one that ends
\* it, which sends nothing and leaves the transcript history and the
\* partial of every session as they are; every transcript frame is sent by
\* a step of a task whose cancellation has not been requested.
C29_CancelledTaskSilent ==
  [][/\ \A t \in DOMAIN tasks :
          PendingCancel(t) =>
            /\ ~TaskStart(t) /\ ~TaskWake(t) /\ ~TaskErrSent(t)
            /\ TaskCancelled(t) =>
                 /\ wire' = wire
                 /\ \A o \in DOMAIN heap :
                      History(heap'[o]) = History(heap[o])
     /\ (Len(wire') > Len(wire) /\ wire'[Len(wire')].type = "transcript") =>
          \E u \in DOMAIN tasks :
            ~tasks[u].cancel /\ (TaskStart(u) \/ TaskWake(u))]_vars

\* a task that has sent a transcript and sleeps between two iterations was
\* cancelled while a full window of audio is waiting for it
C29_Witness ==
  \E t \in DOMAIN tasks :
    /\ PendingCancel(t) /\ tasks[t].pc = "iter_sleep"
    /\ has_window(heap[tasks[t].sess])
    /\ heap[tasks[t].sess].recognizer.engine # "none"
    /\ TranscriptsOf(tasks[t].sess) # {}

\* C31: add_transcript with is_partial = true overwrites the partial only
\* and leaves the history and current_transcript as they are; with
\* is_partial = false and a text that is not blank it appends the trimmed
\* text to the history, makes that trimmed text the current transcript and
\* clears the partial.
C31_AddTranscriptTrims ==
  [][\A text \in CallTexts :
       /\ CallAddTranscript(text, TRUE) =>
            /\ heap'[1].partial_transcript = text
            /\ heap'[1].transcript_buffer = Probe.transcript_buffer
            /\ heap'[1].current_transcript = Probe.current_transcript
       /\ (CallAddTranscript(text, FALSE) /\ strip(text) # "") =>
            /\ heap'[1].transcript_buffer
                 = Append(Probe.transcript_buffer, strip(text))
            /\ heap'[1].current_transcript = strip(text)
            /\ heap'[1].partial_transcript = ""]_vars

\* the chunks of a sequence of chunks, one after the other
RECURSIVE Concat(_)
Concat(chunks) ==
  IF chunks = <<>> THEN <<>> ELSE Head(chunks) \o Concat(Tail(chunks))

\* C32: without a reset, packets_received is the number of add_audio_chunk
\* calls, total_bytes the sum of the lengths of their chunks, the raw buffer
\* is what is left of all the chunks in arrival order once the bytes removed
\* by the successful extractions are taken from the front, and every
\* add_audio_chunk moves last_activity to the current time.
C32_Counters ==
  /\ [](LET all == Concat(Probe.audio_buffer)
            gone == Probe.windows * Advance(Probe)
        IN /\ Probe.packets_received = Len(Probe.audio_buffer)
           /\ Probe.packets_received + Probe.windows <= inputs
           /\ Probe.total_bytes = Len(all) * Probe.block
           /\ buffer_len(Probe) = Probe.total_bytes - gone
           /\ Probe.raw_buffer = DropHead(all, gone \div Probe.block))
  /\ [][/\ \A chunk \in ProbeChunks :
            CallAddChunk(chunk) =>
              /\ heap'[1].last_activity = now
              /\ heap'[1].packets_received = Probe.packets_received + 1
              /\ heap'[1].total_bytes
                   = Probe.total_bytes + Len(chunk) * Probe.block
              /\ Len(heap'[1].audio_buffer) = Len(Probe.audio_buffer) + 1
              /\ heap'[1].windows = Probe.windows
        /\ CallGetAudio =>
              /\ heap'[1].packets_received = Probe.packets_received
              /\ heap'[1].total_bytes = Probe.total_bytes
              /\ heap'[1].audio_buffer = Probe.audio_buffer]_vars

\* three chunks were added at two different times, a window was taken out
\* and part of the audio is still in the buffer
C32_Witness ==
  /\ Probe.packets_received = 3 /\ Probe.windows >= 1
  /\ Probe.raw_buffer # <<>> /\ Advance(Probe) > 0
  /\ Probe.last_activity > Probe.created_at
  /\ now > Probe.last_activity

\* C33: whenever a process_audio call of the chunked back-end finds >= 1.0 s
\* of audio in its buffer, or >= 0.2 s with >= 3.0 s gone since the last
\* emission, the model is called and after the call the buffer is empty
\* and the last-emission time is the time of the call, whatever the model
\* returned; the result always has is_final = true.
C33_WhisperTrigger ==
  [][\A ms \in AudioMs, out \in Outcomes("whisper") :
       LET rec == Probe.recognizer
           buf == rec.audio_ms + ms
       IN (/\ CallProcessAudio(ms, out)
           /\ rec.engine = "whisper" /\ rec.available) =>
            /\ heap'[1].recognizer.result.is_final
            /\ (\/ buf >= 1000
                \/ buf >= 200 /\ now - rec.last_transcript_time >= 3) =>
                 /\ heap'[1].recognizer.engine_calls = rec.engine_calls + 1
                 /\ heap'[1].recognizer.audio_ms = 0
                 /\ heap'[1].recognizer.last_transcript_time = now]_vars

\* C34: process_audio of no back-end raises; when the engine fails, does not
\* recognize anything or raises, the result has an empty text; the results
\* of the cloud and the chunked back-end have is_final = true; an
\* unavailable recognizer returns an empty text and does not call its
\* engine.
C34_ProcessAudioTotal ==
  [][\A ms \in AudioMs, out \in AllOutcomes :
       CallProcessAudio(ms, out) =>
         LET rec == Probe.recognizer
             after == heap'[1].recognizer
         IN /\ ~after.raised
            /\ out \notin {"text", "partial"} => after.result.text = ""
            /\ rec.engine \in {"sr", "whisper"} => after.result.is_final
            /\ ~rec.available =>
                 /\ after.result.text = ""
                 /\ after.engine_calls = rec.engine_calls
                 /\ after.audio_ms = rec.audio_ms
                 /\ after.engine_calls = 0]_vars

\* the cloud back-end has returned a text, and then its endpoint raised
\* something that is neither of the library's two exceptions
C34_Witness ==
  /\ Probe.recognizer.engine = "sr" /\ Probe.recognizer.available
  /\ Probe.recognizer.engine_calls >= 2
  /\ Probe.recognizer.result = NoResult
  /\ inputs = Probe.recognizer.engine_calls

\* C35: while the process_audio call of one session's dispatcher is in
\* progress, the dispatcher of every other session that is due to wake can
\* take its step, and a frame of every open connection of another session
\* can be handled.
C35_OtherSessionsRun ==
  \A t \in DOMAIN tasks :
    tasks[t].pc = "in_call" =>
      /\ \A u \in DOMAIN tasks :
           (/\ tasks[u].sid # tasks[t].sid
            /\ tasks[u].pc \in {"nodata_sleep", "iter_sleep"}
            /\ ~tasks[u].cancel
            /\ \A v \in DOMAIN tasks : ~PendingCancel(v) /\ ~IsNew(v)) =>
             ENABLED DispatcherStep(u)
      /\ \A w \in Sockets :
           (/\ conns[w].pc = "recv" /\ conns[w].sid # tasks[t].sid
            /\ inputs < MaxInputs) =>
             ENABLED InboundFrame(w)

\* C36: a transcript frame with is_final = false is sent for a session only
\* while the config of that session has partial_results = true.
C36_PartialsOnlyIfEnabled ==
  [][(Len(wire') > Len(wire)) =>
       LET f == wire'[Len(wire')]
       IN (f.type = "transcript" /\ ~f.is_final) =>
            heap[f.obj].config.partial_results]_vars

\* C37: a binary frame starts a new dispatcher task if and only if no task
\* is registered for the session id or the registered task has finished;
\* the new task is registered for the id and is the only task the frame
\* starts; a frame that arrives while a live task is registered starts
\* none.
C37_RestartIffDead ==
  [][\A w \in Sockets, chunk \in Chunks :
       RecvBinary(w, chunk) =>
         LET sid == conns[w].sid
             t == active_transcription_tasks[sid]
             dead == t = 0 \/ ~Live(t)
         IN /\ dead =>
                 /\ Len(tasks') = Len(tasks) + 1
                 /\ tasks'[Len(tasks')].sid = sid
                 /\ tasks'[Len(tasks')].ws = w
                 /\ tasks'[Len(tasks')].pc = "new"
                 /\ active_transcription_tasks'[sid] \in {Len(tasks'), 0}
            /\ ~dead =>
                 /\ Len(tasks') = Len(tasks)
                 /\ active_transcription_tasks'[sid] \in {t, 0}]_vars

\* a dispatcher that ended on its own, not by cancellation, was followed by
\* a new one which a later frame started and registered
C37_Witness ==
  \E t \in DOMAIN tasks :
    /\ ~Live(t) /\ tasks[t].exit \notin {"cancelled", "none"}
    /\ active_transcription_tasks[tasks[t].sid] > t

\* GET /audio/{id}/info: "is_active": session_id in active_connections
is_active(sid) == active_connections[sid] # 0

\* C38: is_active of a session id is true exactly when at least one
\* streaming connection for that id is open.
C38_ActiveIffConnected ==
  \A sid \in SessionIds :
    is_active(sid) <=> \E w \in Sockets : Open(w) /\ conns[w].sid = sid

\* C39: last_activity of a session changes only when a binary frame is
\* handled, and then it becomes the current time: ping, metadata, config
\* and reset messages, an accept on a session that exists and the steps of
\* the dispatcher leave it as it is; the reaper deletes every session whose
\* last_activity is more than max_age_minutes old, whether or not a
\* connection of the session is open.
C39_OnlyAudioIsActivity ==
  [][/\ \A o \in DOMAIN heap :
          heap'[o].last_activity # heap[o].last_activity =>
            \E w \in Sockets :
              /\ conns[w].sess = o /\ RecvBinary(w, <<500>>)
              /\ heap'[o].last_activity = now
     /\ \A o \in DOMAIN heap' \ DOMAIN heap : heap'[o].last_activity = now
     /\ ReaperTick =>
          \A sid \in SessionIds :
            (/\ sessions[sid] # 0
             /\ now - heap[sessions[sid]].last_activity
                  > max_age_minutes * 60) =>
              sessions'[sid] = 0]_vars

\* a client that has sent a ping and no audio is still waiting in receive()
\* on a session which the reaper has deleted
C39_Witness ==
  \E w \in Sockets :
    /\ conns[w].pc = "recv" /\ sessions[conns[w].sid] = 0
    /\ heap[conns[w].sess].packets_received = 0
    /\ \E i \in DOMAIN wire : wire[i].type = "pong" /\ wire[i].ws = w

Returned == {i \in DOMAIN wire : wire[i].type = "instance"}

\* C40: every call of get_or_create_recognizer with the same key returns
\* the same instance, and create_recognizer is called at most once per key:
\* a call whose key is in the dict leaves the dict as it is, and a key that
\* has produced nothing keeps returning nothing.
C40_Memoized ==
  /\ [](/\ \A i, j \in Returned :
              wire[i].key = wire[j].key => wire[i].value = wire[j].value
        /\ \A i, j \in DOMAIN recognizer_instances :
              recognizer_instances[i].key = recognizer_instances[j].key =>
                i = j
        /\ \A i \in DOMAIN recognizer_instances :
              recognizer_instances[i].value.serial = i)
  /\ [][\A engine \in FactoryNames, model_size \in {"", "small"} :
          CallGetOrCreate(engine, model_size) =>
            LET k == recognizer_key(engine, "vi", DEFAULT_SAMPLE_RATE,
                                    model_size)
                v == wire'[Len(wire')].value
            IN IF HasKey(recognizer_instances, k)
               THEN /\ recognizer_instances' = recognizer_instances
                    /\ v = Lookup(recognizer_instances, k)
               ELSE /\ Len(recognizer_instances')
                         = Len(recognizer_instances) + 1
                    /\ v.engine = factory_create(engine, avail).engine
                    /\ Lookup(recognizer_instances', k) = v]_vars

\* a key gave nothing, the engine then became available, and the next call
\* with that key, written in another case, gave nothing again
C40_Witness ==
  \E i, j \in Returned :
    /\ i < j /\ wire[i].key = wire[j].key
    /\ wire[i].engine # wire[j].engine
    /\ wire[j].value.engine = "none"
    /\ factory_create(wire[j].engine, avail).engine # "none"

FairSpec == Spec /\ \A t \in TaskIds : WF_vars(TaskCancelled(t))

====
